---- MODULE Spec2Model ----
(***************************************************************************)
(* Model of the graph relationship aggregation of                          *)
(* dash_clio_dashboard/services/network_intelligence.py:                   *)
(* EnhancedNetworkIntelligenceService.get_client_family_network,           *)
(* get_vendor_matter_network and get_staff_workload_network, with the      *)
(* SQLite metric lookups they call.                                        *)
(*                                                                         *)
(* One behaviour is the life of one service object: a sequence of query    *)
(* invocations.  A query fetches its graph rows one at a time from the     *)
(* result cursor (for record in result) and one action processes one row   *)
(* exactly as the loop body does.  An element of the payload is modelled   *)
(* by its 'data' mapping.                                                  *)
(*                                                                         *)
(* Further components have their own variables, actions and               *)
(* specification: Matter3DAnalyticsService of                              *)
(* services/matter_3d_analytics.py (M3DSpec), the callback and health      *)
(* route of app.py (AppSpec), scripts/register_with_cfe.py (RegSpec),      *)
(* scripts/validate_config.py (ValSpec), layouts/bottlenecks.py            *)
(* (BottleneckSpec), layouts/lifecycle.py (LifecycleSpec) and              *)
(* components/matter_timeline.py (TimelineSpec).  In each specification    *)
(* the variables of the other components stay as Init leaves them.         *)
(***************************************************************************)
EXTENDS Integers, Sequences, FiniteSets, TLC

VARIABLES
    query,            \* which query method is (or was last) executing
    pc,               \* "idle" | "loop" | "returned" | "raised"
    rows,             \* the records the cursor has yielded in this invocation
    nodes,            \* local list nodes
    edges,            \* local list edges
    seen_clients,     \* local set seen_clients
    seen_matters,     \* local set seen_matters
    seen_vendors,     \* local set seen_vendors
    seen_staff,       \* local set seen_staff
    seen_departments, \* local set seen_departments
    staff_workloads,  \* local dict staff_workloads
    trace,            \* history: appends and lookups of this invocation, in execution order
    lookups,          \* history: the auxiliary lookups of this invocation with their answers
    result,           \* the value returned by the invocation (NoResult until it returns)
    prev,             \* history: the previous invocation (query, rows, lookups, result)
    calls,            \* number of invocations started on this service object
    fetched,          \* number of rows fetched over all invocations
    np_random,        \* state of numpy's global random generator
    open_conns,       \* connections Matter3DAnalyticsService opened and nothing closed
    m3d_last,         \* the Matter3DAnalyticsService call that returned last
    m3d_prev,         \* history: the call that returned before it
    m3d_calls,        \* number of Matter3DAnalyticsService calls
    other_draws,      \* history: other code drew from the generator since that call
    app_pc,           \* "start" | "serving": app.py is imported or not yet
    CLIOCORE_AVAILABLE, \* the module-level flag set by the import of ClioCore
    dashboard_tabs,   \* data of dcc.Store 'dashboard-tabs': the selected view
    dashboard_content, \* children of 'dashboard-content': the panel shown
    sidebar_nav,      \* children of 'sidebar-nav'
    triggered,        \* history: the id that triggered the last call of the callback
    last_clicked,     \* history: the nav item clicked last, "none" before any click
    n_intervals,      \* n_intervals of dcc.Interval 'interval-component'
    health,           \* the last response of /health
    load_failed,      \* history: the view's layout raised in the last call of the callback
    reg_pc,           \* "start", the step run_full_registration is about to begin, "returned"
    manifest,         \* self.manifest of the CFEModuleRegistrar
    reg_steps,        \* history: the steps run_full_registration began, in order
    reg_requests,     \* history: registration requests the registry received
    registry_accepted, \* the registry holds a registration of the module
    reg_response,     \* history: what requests.post did in register_module
    reg_resolver,     \* history: what the resolver answered in check_prerequisites
    reg_warnings,     \* history: warnings logged by check_prerequisites
    reg_result,       \* "none" | "True" | "False": what run_full_registration returned
    val_pc,           \* "start" | "checks" | "returned": position of the validation script
    errors,           \* len(self.errors) of the CFEIntegrationValidator
    warnings,         \* len(self.warnings)
    val_ran,          \* history: the checks run_comprehensive_validation called, in order
    val_logged,       \* history: log_error calls made by the checks themselves
    val_raised,       \* history: checks that raised
    val_report,       \* the headline of the summary report
    val_result,       \* "none" | "True" | "False": what run_comprehensive_validation returned
    bn_op,            \* "none" | "create_layout" | "create_priority_matrix": the last call
    bottleneck_data,  \* the record the last call of the bottlenecks view worked on
    alert_cards,      \* the values on the four alert cards of the bottlenecks view
    priority_matrix,  \* the priority matrix built last
    stage_data,       \* the record the lifecycle view built its layout from
    stage_dist_read,  \* history: what get_stage_distribution did for that record
    duration_chart,   \* the figure of create_stage_duration_chart
    tl_pc,            \* "idle" | "matters" | "stages" | "returned": generate_timeline_data
    tl_args,          \* department_filter and limit of the call
    tl_i,             \* i of for i in range(limit)
    tl_matter,        \* the values of the matter the loop is at
    matter_stages,    \* local list matter_stages
    current_date,     \* local current_date
    tl_matters,       \* local list matters
    tl_df             \* the rows of the DataFrame returned last

net_vars == <<query, pc, rows, nodes, edges, seen_clients, seen_matters, seen_vendors,
              seen_staff, seen_departments, staff_workloads, trace, lookups, result,
              prev, calls, fetched>>

m3d_vars == <<np_random, open_conns, m3d_last, m3d_prev, m3d_calls, other_draws>>

app_vars == <<app_pc, CLIOCORE_AVAILABLE, dashboard_tabs, dashboard_content, sidebar_nav,
              triggered, last_clicked, n_intervals, health, load_failed>>

reg_vars == <<reg_pc, manifest, reg_steps, reg_requests, registry_accepted,
              reg_response, reg_resolver, reg_warnings, reg_result>>

val_vars == <<val_pc, errors, warnings, val_ran, val_logged, val_raised, val_report,
              val_result>>

bn_vars == <<bn_op, bottleneck_data, alert_cards, priority_matrix>>

lc_vars == <<stage_data, stage_dist_read, duration_chart>>

tl_vars == <<tl_pc, tl_args, tl_i, tl_matter, matter_stages, current_date, tl_matters,
             tl_df>>

ext_vars == <<reg_vars, val_vars, bn_vars, lc_vars, tl_vars>>

not_reg_vars == <<net_vars, m3d_vars, app_vars, val_vars, bn_vars, lc_vars, tl_vars>>

not_val_vars == <<net_vars, m3d_vars, app_vars, reg_vars, bn_vars, lc_vars, tl_vars>>

not_bn_vars == <<net_vars, m3d_vars, app_vars, reg_vars, val_vars, lc_vars, tl_vars>>

not_lc_vars == <<net_vars, m3d_vars, app_vars, reg_vars, val_vars, bn_vars, tl_vars>>

not_tl_vars == <<net_vars, app_vars, reg_vars, val_vars, bn_vars, lc_vars>>

vars == <<net_vars, m3d_vars, app_vars, ext_vars>>

-----------------------------------------------------------------------------
(* Bounds of the model *)

\* rows fetched from the graph store over the life of the service object
MaxRows == 2
\* query invocations on the service object
MaxCalls == 2

ClientIds == {"1", "2"}
MatterIds == {"1", "2"}
VendorIds == {"1", "2"}
StaffIds == {"1", "2"}
DeptIds == {"1", "2"}

\* collect(DISTINCT m.id): lists without repetition
MatterLists == {<<>>, <<"2", "1">>}

-----------------------------------------------------------------------------
(* Python values *)

\* the empty dict {}
EmptyMap == [k \in {} |-> 0]

\* dict.get(key, default)
Get(m, k, d) == IF k \in DOMAIN m THEN m[k] ELSE d

Range(s) == { s[k] : k \in 1..Len(s) }

\* a float quotient num / den, kept exact
Ratio(n, d) == [num |-> n, den |-> d]

\* text[:n] + '...' if len(text) > n else text
Truncate(text, n) == IF Len(text) > n THEN SubSeq(text, 1, n) \o "..." ELSE text

Digit(d) == SubSeq("0123456789", d + 1, d + 1)

RECURSIVE IntStr(_)
IntStr(n) == IF n < 10 THEN Digit(n) ELSE IntStr(n \div 10) \o Digit(n % 10)

\* format(n, ',.0f') of a whole number
RECURSIVE Thousands(_)
Thousands(n) ==
    IF n < 1000 THEN IntStr(n)
    ELSE Thousands(n \div 1000) \o "," \o Digit((n % 1000) \div 100)
           \o Digit((n % 100) \div 10) \o Digit(n % 10)

NoResult == [returned |-> FALSE]

-----------------------------------------------------------------------------
(* The SQLite store behind self.sqlite_conn: the content the point queries    *)
(* read.  Every id the aggregate queries are asked about has at least one row *)
(* (their SUM is then a number); matter "2" has no row.                       *)

matters ==
    { [id |-> "1", client_id |-> "1", value |-> 700, status |-> "Closed",
       description |-> "Estate of Doe", practice_area |-> "Probate",
       created_date |-> "2024-01-05"],
      [id |-> "3", client_id |-> "2", value |-> 300, status |-> "Active",
       description |-> "Lease review", practice_area |-> "Property",
       created_date |-> "2024-03-09"],
      [id |-> "4", client_id |-> "1", value |-> 500, status |-> "Active",
       description |-> "Doe v. Roe", practice_area |-> "Litigation",
       created_date |-> "2024-06-11"] }

vendor_engagements ==
    { [vendor_id |-> "1", matter_id |-> "1", cost |-> 1200],
      [vendor_id |-> "2", matter_id |-> "3", cost |-> 800],
      [vendor_id |-> "2", matter_id |-> "4", cost |-> 400] }

matter_assignments ==
    { [staff_id |-> "1", matter_id |-> "1"],
      [staff_id |-> "1", matter_id |-> "3"],
      [staff_id |-> "2", matter_id |-> "4"] }

\* SUM(f) over a set of rows
RECURSIVE SumOf(_, _)
SumOf(S, f) ==
    IF S = {} THEN 0
    ELSE LET x == CHOOSE y \in S : TRUE IN x[f] + SumOf(S \ {x}, f)

\* The answer of pd.read_sql: it raises, or it is a frame of zero or more rows.
ReadSqlError == [error |-> TRUE, rows |-> <<>>]
Frame(rs) == [error |-> FALSE, rows |-> rs]

\* df.iloc[0].to_dict() if not df.empty else {}
FirstRowOrEmpty(df) == IF df.rows # <<>> THEN df.rows[1] ELSE EmptyMap

\* SELECT COUNT(m.id), SUM(m.value), AVG(m.value) FROM matters m WHERE m.client_id = ?
ClientMetricsQuery(client_id) ==
    LET S == { m \in matters : m.client_id = client_id }
    IN  Frame(<<[matter_count |-> Cardinality(S),
                 total_matter_value |-> SumOf(S, "value"),
                 avg_matter_value |-> Ratio(SumOf(S, "value"), Cardinality(S))]>>)

\* SELECT description, value, status, practice_area, created_date FROM matters WHERE id = ?
MatterDataQuery(matter_id) ==
    LET S == { m \in matters : m.id = matter_id }
    IN  IF S = {} THEN Frame(<<>>)
        ELSE LET m == CHOOSE x \in S : TRUE
             IN  Frame(<<[description |-> m.description, value |-> m.value,
                          status |-> m.status, practice_area |-> m.practice_area,
                          created_date |-> m.created_date]>>)

\* SELECT COUNT(DISTINCT m.id), SUM(ve.cost), AVG(ve.cost)
\* FROM vendor_engagements ve JOIN matters m ON ve.matter_id = m.id WHERE ve.vendor_id = ?
VendorMetricsQuery(vendor_id) ==
    LET J == { ve \in vendor_engagements :
                 /\ ve.vendor_id = vendor_id
                 /\ \E m \in matters : m.id = ve.matter_id }
    IN  Frame(<<[matter_count |-> Cardinality({ ve.matter_id : ve \in J }),
                 total_revenue |-> SumOf(J, "cost"),
                 avg_cost_per_matter |-> Ratio(SumOf(J, "cost"), Cardinality(J))]>>)

\* SELECT COUNT(CASE WHEN m.status = 'Active' THEN 1 END), COUNT(m.id), AVG(m.value)
\* FROM matter_assignments ma JOIN matters m ON ma.matter_id = m.id WHERE ma.staff_id = ?
StaffMetricsQuery(staff_id) ==
    LET J == { m \in matters :
                 \E ma \in matter_assignments :
                    ma.staff_id = staff_id /\ ma.matter_id = m.id }
    IN  Frame(<<[active_matters |-> Cardinality({ m \in J : m.status = "Active" }),
                 total_matters |-> Cardinality(J),
                 avg_matter_value |-> Ratio(SumOf(J, "value"), Cardinality(J))]>>)

\* what the store answers to the point query of lookup fn for id
Select(fn, id) ==
    CASE fn = "_get_client_metrics" -> ClientMetricsQuery(id)
      [] fn = "_get_matter_data" -> MatterDataQuery(id)
      [] fn = "_get_vendor_metrics" -> VendorMetricsQuery(id)
      [] fn = "_get_staff_metrics" -> StaffMetricsQuery(id)

\* no point query fails
NoFailure == <<"none", "">>

\* pd.read_sql(query, self.sqlite_conn, params=[id]); it raises for the query in failing
ReadSql(fn, id, failing) == IF failing = <<fn, id>> THEN ReadSqlError ELSE Select(fn, id)

\* one event of the execution history
Ev(op, a, b) == [op |-> op, a |-> a, b |-> b]

-----------------------------------------------------------------------------
(* The local collections of one invocation, threaded through the loop body *)

Locals ==
    [nodes |-> nodes, edges |-> edges,
     seen_clients |-> seen_clients, seen_matters |-> seen_matters,
     seen_vendors |-> seen_vendors, seen_staff |-> seen_staff,
     seen_departments |-> seen_departments, staff_workloads |-> staff_workloads,
     trace |-> trace, lookups |-> lookups, raised |-> FALSE]

\* variant: seen_departments kept on the service object instead of created per call
StaleLocals ==
    [nodes |-> <<>>, edges |-> <<>>,
     seen_clients |-> {}, seen_matters |-> {},
     seen_vendors |-> {}, seen_staff |-> {},
     seen_departments |-> seen_departments, staff_workloads |-> EmptyMap,
     trace |-> <<>>, lookups |-> <<>>, raised |-> FALSE]

\* nodes = [], edges = [], seen_* = set(), staff_workloads = {}
FreshLocals ==
    [nodes |-> <<>>, edges |-> <<>>,
     seen_clients |-> {}, seen_matters |-> {},
     seen_vendors |-> {}, seen_staff |-> {},
     seen_departments |-> {}, staff_workloads |-> EmptyMap,
     trace |-> <<>>, lookups |-> <<>>, raised |-> FALSE]

SetLocals(L) ==
    /\ nodes' = L.nodes
    /\ edges' = L.edges
    /\ seen_clients' = L.seen_clients
    /\ seen_matters' = L.seen_matters
    /\ seen_vendors' = L.seen_vendors
    /\ seen_staff' = L.seen_staff
    /\ seen_departments' = L.seen_departments
    /\ staff_workloads' = L.staff_workloads
    /\ trace' = L.trace
    /\ lookups' = L.lookups

\* nodes.append(n)
AppendNode(L, n) ==
    [L EXCEPT !.nodes = Append(@, n), !.trace = Append(@, Ev("node", n.id, ""))]

\* edges.append(e)
AppendEdge(L, e) ==
    [L EXCEPT !.edges = Append(@, e), !.trace = Append(@, Ev("edge", e.source, e.target))]

\* the point query of a _get_* lookup is executed; an exception of it propagates
Executed(L, fn, id, df) ==
    [L EXCEPT !.lookups = Append(@, [fn |-> fn, id |-> id, df |-> df]),
              !.trace = Append(@, Ev("lookup", fn, id)),
              !.raised = df.error]

\* _get_client_metrics, _get_matter_data, _get_vendor_metrics
GetMetrics(df) == FirstRowOrEmpty(df)

\* assuming 15 active matters = 100% capacity
FullCapacity == 15

\* min(100, (active / 15) * 100)
CapacityPercentage(active) ==
    IF active >= FullCapacity THEN Ratio(100, 1) ELSE Ratio(active * 100, FullCapacity)

\* _get_staff_metrics
GetStaffMetrics(df) ==
    LET res == FirstRowOrEmpty(df)
        cap == CapacityPercentage(Get(res, "active_matters", 0))
    IN  [k \in DOMAIN res \cup {"capacity_percentage"} |->
            IF k = "capacity_percentage" THEN cap ELSE res[k]]

-----------------------------------------------------------------------------
(* get_client_family_network *)

FamilyRows ==
    { [client1_id |-> c1, client1_name |-> "Ann",
       client2_id |-> c2, client2_name |-> "Bob",
       client1_matters |-> l1, client2_matters |-> l2] :
         c1 \in ClientIds, c2 \in ClientIds, l1 \in MatterLists, l2 \in MatterLists }

ClientNode(client_id, client_name, client_metrics) ==
    [id |-> "client_" \o client_id,
     name |-> client_name,
     type |-> "client",
     value |-> Get(client_metrics, "total_matter_value", 0),
     matter_count |-> Get(client_metrics, "matter_count", 0)]

FamilyMatterNode(matter_id, matter_data) ==
    [id |-> "matter_" \o matter_id,
     name |-> Get(matter_data, "description", "Matter " \o matter_id),
     type |-> "matter",
     value |-> Get(matter_data, "value", 0),
     status |-> Get(matter_data, "status", "Active")]

\* variant: the edge names the raw client ids, without the node id prefix
FamilyEdgeRawIds(record) ==
    [source |-> record.client1_id,
     target |-> record.client2_id,
     relationship |-> "family",
     label |-> "Family"]

FamilyEdge(record) ==
    [source |-> "client_" \o record.client1_id,
     target |-> "client_" \o record.client2_id,
     relationship |-> "family",
     label |-> "Family"]

OwnsEdge(client_id, matter_id) ==
    [source |-> "client_" \o client_id,
     target |-> "matter_" \o matter_id,
     relationship |-> "owns",
     label |-> "Owns"]

\* variant: a client seen again has its node's name overwritten by the later row
FamilyClientStepUpsert(L, client_id, client_name, failing) ==
    IF L.raised THEN L
    ELSE IF client_id \in L.seen_clients
    THEN [L EXCEPT !.nodes =
            [k \in 1..Len(@) |->
                IF @[k].id = "client_" \o client_id
                THEN [@[k] EXCEPT !.name = client_name] ELSE @[k]]]
    ELSE LET df == ReadSql("_get_client_metrics", client_id, failing)
             L1 == [L EXCEPT !.seen_clients = @ \cup {client_id}]
             L2 == Executed(L1, "_get_client_metrics", client_id, df)
         IN  IF L2.raised THEN L2
             ELSE AppendNode(L2, ClientNode(client_id, client_name, GetMetrics(df)))

\* one pass of: for client_key in ['client1', 'client2']
FamilyClientStep(L, client_id, client_name, failing) ==
    IF L.raised \/ client_id \in L.seen_clients THEN L
    ELSE LET df == ReadSql("_get_client_metrics", client_id, failing)
             L1 == [L EXCEPT !.seen_clients = @ \cup {client_id}]
             L2 == Executed(L1, "_get_client_metrics", client_id, df)
         IN  IF L2.raised THEN L2
             ELSE AppendNode(L2, ClientNode(client_id, client_name, GetMetrics(df)))

\* one pass of: for matter_id in matter_list
FamilyMatterStep(L, client_id, matter_id, failing) ==
    IF L.raised \/ matter_id \in L.seen_matters THEN L
    ELSE LET df == ReadSql("_get_matter_data", matter_id, failing)
             L1 == [L EXCEPT !.seen_matters = @ \cup {matter_id}]
             L2 == Executed(L1, "_get_matter_data", matter_id, df)
         IN  IF L2.raised THEN L2
             ELSE AppendEdge(AppendNode(L2, FamilyMatterNode(matter_id, GetMetrics(df))),
                             OwnsEdge(client_id, matter_id))

RECURSIVE FamilyMatterList(_, _, _, _)
FamilyMatterList(L, matter_list, client_id, failing) ==
    IF matter_list = <<>> THEN L
    ELSE FamilyMatterList(FamilyMatterStep(L, client_id, Head(matter_list), failing),
                          Tail(matter_list), client_id, failing)

\* variant: the loop over the two clients visits client2 before client1
FamilyBodySecondFirst(L, record, failing) ==
    LET a == FamilyClientStep(L, record.client2_id, record.client2_name, failing)
        b == FamilyClientStep(a, record.client1_id, record.client1_name, failing)
        c == IF b.raised THEN b ELSE AppendEdge(b, FamilyEdge(record))
        d == FamilyMatterList(c, record.client1_matters, record.client1_id, failing)
    IN  FamilyMatterList(d, record.client2_matters, record.client2_id, failing)

\* the body of: for record in neo4j_result
FamilyBody(L, record, failing) ==
    LET a == FamilyClientStep(L, record.client1_id, record.client1_name, failing)
        b == FamilyClientStep(a, record.client2_id, record.client2_name, failing)
        c == IF b.raised THEN b ELSE AppendEdge(b, FamilyEdge(record))
        d == FamilyMatterList(c, record.client1_matters, record.client1_id, failing)
    IN  FamilyMatterList(d, record.client2_matters, record.client2_id, failing)

\* variant: clusterCount counts the clients instead of halving their number
FamilyPayloadClusterPerClient ==
    [returned |-> TRUE,
     elements |-> nodes \o edges,
     stats |-> [nodeCount |-> Len(nodes),
                edgeCount |-> Len(edges),
                clusterCount |-> Cardinality(seen_clients)],
     layout |-> "cose",
     title |-> "Client Family Networks"]

FamilyPayload ==
    [returned |-> TRUE,
     elements |-> nodes \o edges,
     stats |-> [nodeCount |-> Len(nodes),
                edgeCount |-> Len(edges),
                clusterCount |-> Cardinality(seen_clients) \div 2],
     layout |-> "cose",
     title |-> "Client Family Networks"]

\* create_network_enhanced_layout(service, 'family_analysis'): the values of the two
\* KPI cards built from the payload network_data
FamilyAnalysisKpis(network_data) ==
    [total_families |-> network_data.stats.clusterCount,
     connected_matters |->
        network_data.stats.nodeCount - network_data.stats.clusterCount * 2]

\* the point queries processing record can execute
FamilyLookups(record) ==
    { <<"_get_client_metrics", c>> :
        c \in {record.client1_id, record.client2_id} \ seen_clients }
    \cup { <<"_get_matter_data", m>> :
        m \in (Range(record.client1_matters) \cup Range(record.client2_matters))
                \ seen_matters }

-----------------------------------------------------------------------------
(* get_vendor_matter_network *)

\* the attributes a row carries, in two variants
VendorRowOf(v, m, c, k) ==
    [vendor_id |-> v,
     vendor_name |-> IF k = 1 THEN "Acme Forensics" ELSE "Acme Ltd",
     vendor_specialty |-> IF k = 1 THEN "Forensics" ELSE "Valuation",
     matter_id |-> m,
     matter_desc |-> IF k = 1 THEN "Doe v. Roe"
                     ELSE "Multi-party construction defect dispute",
     matter_value |-> IF k = 1 THEN 60000 ELSE 75000,
     client_id |-> c,
     client_name |-> IF k = 1 THEN "Ann" ELSE "Bob",
     vendor_cost |-> IF k = 1 THEN 1200 ELSE 25000,
     service_type |-> IF k = 1 THEN "Expert" ELSE "Review"]

VendorRows ==
    { VendorRowOf(v, m, c, k) :
        v \in VendorIds, m \in MatterIds, c \in ClientIds, k \in {1, 2} }

VendorNode(record, vendor_metrics) ==
    [id |-> "vendor_" \o record.vendor_id,
     name |-> record.vendor_name,
     type |-> "vendor",
     specialty |-> record.vendor_specialty,
     total_revenue |-> Get(vendor_metrics, "total_revenue", 0),
     matter_count |-> Get(vendor_metrics, "matter_count", 0)]

VendorMatterNode(record) ==
    [id |-> "matter_" \o record.matter_id,
     name |-> Truncate(record.matter_desc, 30),
     type |-> "matter",
     value |-> record.matter_value]

VendorClientNode(record) ==
    [id |-> "client_" \o record.client_id,
     name |-> record.client_name,
     type |-> "client",
     value |-> 0]

UsedInEdge(record) ==
    [source |-> "vendor_" \o record.vendor_id,
     target |-> "matter_" \o record.matter_id,
     relationship |-> "used_in",
     label |-> "$" \o Thousands(record.vendor_cost),
     cost |-> record.vendor_cost,
     service_type |-> record.service_type]

VendorVendorStep(L, record, failing) ==
    IF L.raised \/ record.vendor_id \in L.seen_vendors THEN L
    ELSE LET df == ReadSql("_get_vendor_metrics", record.vendor_id, failing)
             L1 == [L EXCEPT !.seen_vendors = @ \cup {record.vendor_id}]
             L2 == Executed(L1, "_get_vendor_metrics", record.vendor_id, df)
         IN  IF L2.raised THEN L2
             ELSE AppendNode(L2, VendorNode(record, GetMetrics(df)))

\* variant: the matter node is appended without the seen_matters test
VendorMatterStepNoCheck(L, record) ==
    IF L.raised THEN L
    ELSE AppendNode([L EXCEPT !.seen_matters = @ \cup {record.matter_id}],
                    VendorMatterNode(record))

VendorMatterStep(L, record) ==
    IF L.raised \/ record.matter_id \in L.seen_matters THEN L
    ELSE AppendNode([L EXCEPT !.seen_matters = @ \cup {record.matter_id}],
                    VendorMatterNode(record))

VendorClientStep(L, record) ==
    IF L.raised \/ record.client_id \in L.seen_clients THEN L
    ELSE AppendEdge(AppendNode([L EXCEPT !.seen_clients = @ \cup {record.client_id}],
                               VendorClientNode(record)),
                    OwnsEdge(record.client_id, record.matter_id))

\* the body of: for record in result
VendorBody(L, record, failing) ==
    LET a == VendorVendorStep(L, record, failing)
        b == VendorMatterStep(a, record)
        c == VendorClientStep(b, record)
    IN  IF c.raised THEN c ELSE AppendEdge(c, UsedInEdge(record))

VendorPayload ==
    [returned |-> TRUE,
     elements |-> nodes \o edges,
     stats |-> [nodeCount |-> Len(nodes),
                edgeCount |-> Len(edges),
                vendorCount |-> Cardinality(seen_vendors)],
     layout |-> "concentric",
     title |-> "Vendor Network Analysis"]

VendorLookups(record) ==
    { <<"_get_vendor_metrics", v>> : v \in {record.vendor_id} \ seen_vendors }

-----------------------------------------------------------------------------
(* get_staff_workload_network *)

StaffRowOf(s, d, m, k) ==
    [staff_id |-> s,
     staff_name |-> IF k = 1 THEN "Cy" ELSE "Di",
     staff_role |-> IF k = 1 THEN "Paralegal" ELSE "Attorney",
     dept_id |-> d,
     dept_name |-> IF k = 1 THEN "Litigation" ELSE "Probate",
     matter_id |-> m,
     matter_desc |-> IF k = 1 THEN "Doe v. Roe"
                     ELSE "Multi-party construction defect dispute",
     matter_status |-> IF k = 1 THEN "Active" ELSE "Pending",
     client_id |-> "1",
     client_name |-> "Ann"]

StaffRows ==
    { StaffRowOf(s, d, m, k) :
        s \in StaffIds, d \in DeptIds, m \in MatterIds, k \in {1, 2} }

StaffNode(record, staff_metrics) ==
    [id |-> "staff_" \o record.staff_id,
     name |-> record.staff_name,
     type |-> "staff",
     role |-> record.staff_role,
     workload |-> Get(staff_metrics, "active_matters", 0),
     capacity_pct |-> Get(staff_metrics, "capacity_percentage", Ratio(50, 1))]

DeptNode(record) ==
    [id |-> "dept_" \o record.dept_id,
     name |-> record.dept_name,
     type |-> "department",
     staff_count |-> 0]

StaffMatterNode(record) ==
    [id |-> "matter_" \o record.matter_id,
     name |-> Truncate(record.matter_desc, 25),
     type |-> "matter",
     status |-> record.matter_status]

WorksInEdge(record) ==
    [source |-> "staff_" \o record.staff_id,
     target |-> "dept_" \o record.dept_id,
     relationship |-> "works_in",
     label |-> "Works in"]

AssignedToEdge(record) ==
    [source |-> "staff_" \o record.staff_id,
     target |-> "matter_" \o record.matter_id,
     relationship |-> "assigned_to",
     label |-> "Assigned"]

\* if staff_id not in staff_workloads: staff_workloads[staff_id] = 0
\* staff_workloads[staff_id] += 1
TrackWorkload(L, staff_id) ==
    LET w == L.staff_workloads
    IN  [L EXCEPT !.staff_workloads =
            [s \in DOMAIN w \cup {staff_id} |->
                (IF s \in DOMAIN w THEN w[s] ELSE 0) + (IF s = staff_id THEN 1 ELSE 0)]]

\* variant: the metrics are looked up before the seen_staff test
StaffStaffStepEagerLookup(L, record, failing) ==
    IF L.raised THEN L
    ELSE LET df == ReadSql("_get_staff_metrics", record.staff_id, failing)
             L2 == Executed(L, "_get_staff_metrics", record.staff_id, df)
         IN  IF L2.raised \/ record.staff_id \in L.seen_staff THEN L2
             ELSE AppendNode([L2 EXCEPT !.seen_staff = @ \cup {record.staff_id}],
                             StaffNode(record, GetStaffMetrics(df)))

StaffStaffStep(L, record, failing) ==
    IF L.raised \/ record.staff_id \in L.seen_staff THEN L
    ELSE LET df == ReadSql("_get_staff_metrics", record.staff_id, failing)
             L1 == [L EXCEPT !.seen_staff = @ \cup {record.staff_id}]
             L2 == Executed(L1, "_get_staff_metrics", record.staff_id, df)
         IN  IF L2.raised THEN L2
             ELSE AppendNode(L2, StaffNode(record, GetStaffMetrics(df)))

StaffDeptStep(L, record) ==
    IF L.raised \/ record.dept_id \in L.seen_departments THEN L
    ELSE AppendEdge(AppendNode([L EXCEPT !.seen_departments = @ \cup {record.dept_id}],
                               DeptNode(record)),
                    WorksInEdge(record))

StaffMatterStep(L, record) ==
    IF L.raised \/ record.matter_id \in L.seen_matters THEN L
    ELSE AppendEdge(AppendNode([L EXCEPT !.seen_matters = @ \cup {record.matter_id}],
                               StaffMatterNode(record)),
                    AssignedToEdge(record))

\* the body of: for record in result
StaffBody(L, record, failing) ==
    LET a == TrackWorkload(L, record.staff_id)
        b == StaffStaffStep(a, record, failing)
        c == StaffDeptStep(b, record)
    IN  StaffMatterStep(c, record)

\* variant: the division without the emptiness guard
AvgWorkloadUnguarded(w) ==
    Ratio(SumOf({ [id |-> s, n |-> w[s]] : s \in DOMAIN w }, "n"), Cardinality(DOMAIN w))

\* sum(staff_workloads.values()) / len(staff_workloads) if staff_workloads else 0
\* (a ratio with den 0 is the ZeroDivisionError of the division)
AvgWorkload(w) ==
    IF DOMAIN w # {} THEN Ratio(SumOf({ [id |-> s, n |-> w[s]] : s \in DOMAIN w }, "n"),
                                Cardinality(DOMAIN w))
    ELSE Ratio(0, 1)

StaffPayload ==
    [returned |-> TRUE,
     elements |-> nodes \o edges,
     stats |-> [nodeCount |-> Len(nodes),
                edgeCount |-> Len(edges),
                staffCount |-> Cardinality(seen_staff),
                avgWorkload |-> AvgWorkload(staff_workloads)],
     layout |-> "breadthfirst",
     title |-> "Staff Workload Analysis"]

StaffLookups(record) ==
    { <<"_get_staff_metrics", s>> : s \in {record.staff_id} \ seen_staff }

-----------------------------------------------------------------------------
(* The invocations *)

\* what is remembered of the invocation that just ended
Ended == [query |-> query, pc |-> pc, rows |-> rows, lookups |-> lookups, result |-> result]

NoPrev == [query |-> "none", pc |-> "idle", rows |-> <<>>, lookups |-> <<>>, result |-> NoResult]

\* variant: the seen-id sets live on the service object and survive the invocation
CallReusingSeen(q) ==
    /\ pc \in {"idle", "returned", "raised"}
    /\ query \in {"none", q}
    /\ calls < MaxCalls
    /\ calls' = calls + 1
    /\ prev' = IF pc = "idle" THEN prev ELSE Ended
    /\ query' = q
    /\ pc' = "loop"
    /\ rows' = <<>>
    /\ result' = NoResult
    /\ SetLocals([FreshLocals EXCEPT !.seen_clients = seen_clients,
                                     !.seen_matters = seen_matters,
                                     !.seen_vendors = seen_vendors,
                                     !.seen_staff = seen_staff])
    /\ UNCHANGED <<fetched, m3d_vars, app_vars, ext_vars>>

\* a query method is entered: the session is opened and the local collections created
\* (the behaviours explored use one service object for one of the three queries)
Call(q) ==
    /\ pc \in {"idle", "returned", "raised"}
    /\ query \in {"none", q}
    /\ calls < MaxCalls
    /\ calls' = calls + 1
    /\ prev' = IF pc = "idle" THEN prev ELSE Ended
    /\ query' = q
    /\ pc' = "loop"
    /\ rows' = <<>>
    /\ result' = NoResult
    /\ SetLocals(FreshLocals)
    /\ UNCHANGED <<fetched, m3d_vars, app_vars, ext_vars>>

\* the cursor yields record and the loop body runs on it
Fetch(q, record, L) ==
    /\ pc = "loop"
    /\ query = q
    /\ fetched < MaxRows
    /\ fetched' = fetched + 1
    /\ rows' = Append(rows, record)
    /\ SetLocals(L)
    /\ pc' = IF L.raised THEN "raised" ELSE "loop"
    /\ UNCHANGED <<query, result, prev, calls, m3d_vars, app_vars, ext_vars>>

\* the cursor is exhausted and the return statement builds the payload (called with
\* the default arguments: no practice_area, no department); raises: it divides by zero
Return(q, payload, raises) ==
    /\ pc = "loop"
    /\ query = q
    /\ IF raises
         THEN result' = result /\ pc' = "raised"
         ELSE result' = payload /\ pc' = "returned"
    /\ UNCHANGED <<query, rows, nodes, edges, seen_clients, seen_matters, seen_vendors,
                   seen_staff, seen_departments, staff_workloads, trace, lookups,
                   prev, calls, fetched, m3d_vars, app_vars, ext_vars>>

CallFamily == Call("family")

CallVendor == Call("vendor")

CallStaff == Call("staff")

FamilyRecord ==
    \E record \in FamilyRows :
      \E failing \in {NoFailure} \cup FamilyLookups(record) :
        Fetch("family", record, FamilyBody(Locals, record, failing))

VendorRecord ==
    \E record \in VendorRows :
      \E failing \in {NoFailure} \cup VendorLookups(record) :
        Fetch("vendor", record, VendorBody(Locals, record, failing))

StaffRecord ==
    \E record \in StaffRows :
      \E failing \in {NoFailure} \cup StaffLookups(record) :
        Fetch("staff", record, StaffBody(Locals, record, failing))

FamilyReturn == Return("family", FamilyPayload, FALSE)

VendorReturn == Return("vendor", VendorPayload, FALSE)

StaffReturn == Return("staff", StaffPayload, AvgWorkload(staff_workloads).den = 0)

NetInit ==
    /\ query = "none"
    /\ pc = "idle"
    /\ rows = <<>>
    /\ nodes = <<>>
    /\ edges = <<>>
    /\ seen_clients = {}
    /\ seen_matters = {}
    /\ seen_vendors = {}
    /\ seen_staff = {}
    /\ seen_departments = {}
    /\ staff_workloads = EmptyMap
    /\ trace = <<>>
    /\ lookups = <<>>
    /\ result = NoResult
    /\ prev = NoPrev
    /\ calls = 0
    /\ fetched = 0

NetNext ==
    \/ CallFamily
    \/ CallVendor
    \/ CallStaff
    \/ FamilyRecord
    \/ VendorRecord
    \/ StaffRecord
    \/ FamilyReturn
    \/ VendorReturn
    \/ StaffReturn

-----------------------------------------------------------------------------
(* Matter3DAnalyticsService (services/matter_3d_analytics.py): the SQLite     *)
(* file behind self.db_path as the three query methods read it.  A column     *)
(* that may hold NULL or text carries its storage class with its value.       *)

Null == [t |-> "null"]

Num(v) == [t |-> "num", v |-> v]

Text(v) == [t |-> "text", v |-> v]

\* COALESCE(x, d)
Coalesce(x, d) == IF x.t = "null" THEN Num(d) ELSE x

\* Python's None
PyNone == [none |-> TRUE]

\* an Optional[str] argument
NoFilter == [given |-> FALSE]

Filter(d) == [given |-> TRUE, value |-> d]

\* the arguments explored
MaxLimit == 2

Filters == {NoFilter, Filter("Litigation")}

DetailIds == {"M-1", "M-9"}

\* a row of table matters; age is the number of days since created_at
MatterRowOf(id, client, dept, stage, days, pct, staff, prio, sp, age) ==
    [matter_id |-> id, client_name |-> client, department |-> dept,
     stage_name |-> stage, days_in_stage |-> days, percent_complete |-> pct,
     responsible_staff |-> staff, priority_level |-> prio,
     settlement_probability |-> sp, age |-> age]

Matter1 ==
    MatterRowOf("M-1", "Acme Corporation", "Litigation", "Discovery", 40, Num(55),
                "Sarah Chen", "High", Num(40), 10)

Matter2 ==
    MatterRowOf("M-2", "Metro Construction", "Litigation", "Filing", 12, Null,
                "David Kim", "Low", Null, 20)

\* created before the default date range
Matter3 ==
    MatterRowOf("M-3", "Coastal Insurance", "Appeals", "Appeal", 300, Num(90),
                "Lisa Martinez", "Medium", Num(10), 400)

\* settlement_probability holds text
Matter4 ==
    MatterRowOf("M-4", "Summit Financial", "Discovery", "Investigation", 7, Num(20),
                "James Wilson", "Critical", Text("n/a"), 5)

\* the contents of table matters explored
MatterTables ==
    { {}, {Matter1}, {Matter1, Matter2}, {Matter3}, {Matter4},
      {Matter1, Matter2, Matter3} }

expenses ==
    { [matter_id |-> "M-1", amount |-> 500],
      [matter_id |-> "M-1", amount |-> 250],
      [matter_id |-> "M-4", amount |-> 90] }

tasks ==
    { [id |-> 1, matter_id |-> "M-1", status |-> "active"],
      [id |-> 2, matter_id |-> "M-1", status |-> "completed"],
      [id |-> 3, matter_id |-> "M-2", status |-> "active"],
      [id |-> 4, matter_id |-> "M-2", status |-> "active"] }

\* the file cannot be opened (sqlite3.connect raises)
Unreachable == [reachable |-> FALSE, schema |-> FALSE, matters |-> {}]

\* the file opens but has no tables (pd.read_sql raises)
NoSchema == [reachable |-> TRUE, schema |-> FALSE, matters |-> {}]

Database(table) == [reachable |-> TRUE, schema |-> TRUE, matters |-> table]

Stores == {Unreachable, NoSchema} \cup { Database(table) : table \in MatterTables }

\* ORDER BY m.created_at DESC
RECURSIVE ByCreatedDesc(_)
ByCreatedDesc(S) ==
    IF S = {} THEN <<>>
    ELSE LET m == CHOOSE x \in S : \A y \in S : x.age <= y.age
         IN  <<m>> \o ByCreatedDesc(S \ {m})

\* SELECT matter_id, SUM(amount) as total_expenses FROM expenses GROUP BY matter_id,
\* left-joined: Null for a matter without expenses
TotalExpenses(matter_id) ==
    LET S == { e \in expenses : e.matter_id = matter_id }
    IN  IF S = {} THEN Null ELSE Num(SumOf(S, "amount"))

\* the count of the tasks of a matter with the given status, left-joined
TaskCount(matter_id, status) ==
    LET S == { x \in tasks : x.matter_id = matter_id /\ x.status = status }
    IN  IF S = {} THEN Null ELSE Num(Cardinality(S))

\* variant: the SELECT without its LIMIT clause
Matter3dQueryNoLimit(store, limit, department_filter, date_range_days) ==
    LET W == { m \in store.matters :
                 /\ m.age <= date_range_days
                 /\ department_filter.given => m.department = department_filter.value }
        ordered == ByCreatedDesc(W)
        Row(m) == [matter_id |-> m.matter_id,
                   client_name |-> m.client_name,
                   department |-> m.department,
                   stage_name |-> m.stage_name,
                   days_in_stage |-> m.days_in_stage,
                   total_expenses |-> Coalesce(TotalExpenses(m.matter_id), 0),
                   active_tasks |-> Coalesce(TaskCount(m.matter_id, "active"), 0),
                   percent_complete |-> Coalesce(m.percent_complete, 0),
                   responsible_staff |-> m.responsible_staff,
                   priority_level |-> m.priority_level,
                   settlement_probability |-> Coalesce(m.settlement_probability, 0),
                   created_at |-> m.age]
    IN  [k \in 1..Len(ordered) |-> Row(ordered[k])]

\* the SELECT of _get_real_matter_data
Matter3dQuery(store, limit, department_filter, date_range_days) ==
    LET W == { m \in store.matters :
                 /\ m.age <= date_range_days
                 /\ department_filter.given => m.department = department_filter.value }
        ordered == ByCreatedDesc(W)
        n == IF limit < Len(ordered) THEN limit ELSE Len(ordered)
        Row(m) == [matter_id |-> m.matter_id,
                   client_name |-> m.client_name,
                   department |-> m.department,
                   stage_name |-> m.stage_name,
                   days_in_stage |-> m.days_in_stage,
                   total_expenses |-> Coalesce(TotalExpenses(m.matter_id), 0),
                   active_tasks |-> Coalesce(TaskCount(m.matter_id, "active"), 0),
                   percent_complete |-> Coalesce(m.percent_complete, 0),
                   responsible_staff |-> m.responsible_staff,
                   priority_level |-> m.priority_level,
                   settlement_probability |-> Coalesce(m.settlement_probability, 0),
                   created_at |-> m.age]
    IN  [k \in 1..n |-> Row(ordered[k])]

\* pd.read_sql(query, conn) on an opened store
ReadSqlStore(store, answer) == IF store.schema THEN Frame(answer) ELSE ReadSqlError

\* f"{p:.0%}" of a probability held in whole percents
Percent0(p) == IntStr(p) \o "%"

HoverText(matter_id, client_name, responsible_staff, stage_name, priority_level, sp) ==
    "Matter: " \o matter_id \o "<br>"
    \o "Client: " \o client_name \o "<br>"
    \o "Staff: " \o responsible_staff \o "<br>"
    \o "Stage: " \o stage_name \o "<br>"
    \o "Priority: " \o priority_level \o "<br>"
    \o "Settlement Prob: " \o Percent0(sp)

\* df[column].tolist()
ToList(rs, column) == [k \in 1..Len(rs) |-> rs[k][column]]

\* the same of a column carrying storage classes
ToValues(rs, column) == [k \in 1..Len(rs) |-> rs[k][column].v]

\* the format spec .0% raises ValueError on a str
FormatRaises(rs) == \E k \in 1..Len(rs) : rs[k].settlement_probability.t = "text"

\* variant: the record lacks the hover texts
FormatDataframeFor3dNoHover(rs) ==
    [departments |-> ToList(rs, "department"),
     days_in_stage |-> ToList(rs, "days_in_stage"),
     total_expenses |-> ToValues(rs, "total_expenses"),
     active_tasks |-> ToValues(rs, "active_tasks"),
     percent_complete |-> ToValues(rs, "percent_complete"),
     matter_ids |-> ToList(rs, "matter_id"),
     client_names |-> ToList(rs, "client_name"),
     responsible_staff |-> ToList(rs, "responsible_staff")]

\* _format_dataframe_for_3d(df), for rows it does not raise on
FormatDataframeFor3d(rs) ==
    [departments |-> ToList(rs, "department"),
     days_in_stage |-> ToList(rs, "days_in_stage"),
     total_expenses |-> ToValues(rs, "total_expenses"),
     active_tasks |-> ToValues(rs, "active_tasks"),
     percent_complete |-> ToValues(rs, "percent_complete"),
     hover_text |-> [k \in 1..Len(rs) |->
                        HoverText(rs[k].matter_id, rs[k].client_name,
                                  rs[k].responsible_staff, rs[k].stage_name,
                                  rs[k].priority_level,
                                  rs[k].settlement_probability.v)],
     matter_ids |-> ToList(rs, "matter_id"),
     client_names |-> ToList(rs, "client_name"),
     responsible_staff |-> ToList(rs, "responsible_staff")]

-----------------------------------------------------------------------------
(* numpy's global generator, reduced to a small linear congruential generator: *)
(* seeding fixes the state and every draw advances it, so that the stream of   *)
(* draws is a function of the state the first draw finds.  Floats drawn by     *)
(* uniform are kept as whole numbers.                                          *)

RngModulus == 8

MockSeed == 42

\* variant: the seed call leaves the state of the generator as it is
NpRandomSeedIgnored(n) == np_random

\* np.random.seed(n): the state the generator is left in
NpRandomSeed(n) == n % RngModulus

\* the state after one draw
Advance(s) == (5 * s + 3) % RngModulus

\* np.random.randint(lo, hi) and np.random.uniform(lo, hi), read off the state s
RandInt(lo, hi, s) == lo + (s * (hi - lo)) \div RngModulus

\* np.random.choice(list)
Choice(list, s) == list[(s % Len(list)) + 1]

RECURSIVE Cumulative(_, _)
Cumulative(p, k) == IF k = 0 THEN 0 ELSE p[k] + Cumulative(p, k - 1)

\* np.random.choice(list, p=p), p in percents
ChoiceP(list, p, s) ==
    LET u == (s * 100) \div RngModulus
        k == CHOOSE j \in 1..Len(list) :
                u < Cumulative(p, j) /\ (j = 1 \/ u >= Cumulative(p, j - 1))
    IN  list[k]

Min(a, b) == IF a < b THEN a ELSE b

Max(a, b) == IF a > b THEN a ELSE b

\* self.departments
departments ==
    <<"Prelitigation", "Litigation", "Appeals", "Settlement",
      "Discovery", "Trial Prep", "Post-Settlement", "Compliance">>

\* self.stage_names
stage_names ==
    <<"Initial Review", "Investigation", "Filing", "Discovery",
      "Mediation", "Trial Prep", "Trial", "Settlement", "Appeal", "Closed">>

client_names ==
    <<"Acme Corporation", "Global Industries Inc", "Tech Solutions LLC",
      "Regional Healthcare", "Metro Construction", "Coastal Insurance",
      "Summit Financial", "Valley Manufacturing", "Urban Development",
      "Pacific Logistics", "Eastern Energy", "Central Banking">>

staff_names ==
    <<"Sarah Chen", "Michael Rodriguez", "Emily Johnson", "David Kim",
      "Jennifer Lee", "Robert Thompson", "Lisa Martinez", "James Wilson",
      "Maria Garcia", "Thomas Anderson", "Ashley Davis", "Christopher Brown">>

priorities == <<"High", "Medium", "Low", "Critical">>

\* p=[0.15, 0.5, 0.3, 0.05]
priority_weights == <<15, 50, 30, 5>>

\* days_range, expense_range, task_range, completion_range of a department
Ranges(department) ==
    CASE department \in {"Prelitigation", "Initial Review"} ->
           [days |-> <<1, 120>>, expense |-> <<1000, 50000>>,
            task |-> <<1, 8>>, completion |-> <<10, 60>>]
      [] department \in {"Discovery", "Investigation"} ->
           [days |-> <<30, 300>>, expense |-> <<25000, 200000>>,
            task |-> <<5, 15>>, completion |-> <<40, 80>>]
      [] department \in {"Trial Prep", "Litigation"} ->
           [days |-> <<180, 600>>, expense |-> <<100000, 500000>>,
            task |-> <<10, 25>>, completion |-> <<60, 90>>]
      [] department \in {"Settlement", "Mediation"} ->
           [days |-> <<90, 400>>, expense |-> <<50000, 300000>>,
            task |-> <<3, 12>>, completion |-> <<70, 95>>]
      [] OTHER ->
           [days |-> <<60, 800>>, expense |-> <<20000, 400000>>,
            task |-> <<2, 10>>, completion |-> <<80, 100>>]

\* settlement_prob of a department, in percents
SettlementBase(department) ==
    CASE department \in {"Settlement", "Mediation"} -> 80
      [] department \in {"Trial Prep", "Trial"} -> 60
      [] department \in {"Discovery"} -> 40
      [] OTHER -> 30

\* one pass of: for i in range(limit); s is the generator state it starts in
MockMatter(i, departments_to_use, s) ==
    LET s1 == Advance(s)
        department == Choice(departments_to_use, s1)
        r == Ranges(department)
        s2 == Advance(s1)
        days_in_stage == RandInt(r.days[1], r.days[2], s2)
        s3 == Advance(s2)
        base_expense == RandInt(r.expense[1], r.expense[2], s3)
        \* base_expense * (1 + (days_in_stage / 365) * 0.5)
        total_expenses == (base_expense * (730 + days_in_stage)) \div 730
        s4 == Advance(s3)
        tasks0 == RandInt(r.task[1], r.task[2], s4)
        s5 == IF days_in_stage > 200 THEN Advance(s4) ELSE s4
        active_tasks == IF days_in_stage > 200
                        THEN Min(tasks0 + RandInt(2, 8, s5), 30) ELSE tasks0
        s6 == Advance(s5)
        completion0 == RandInt(r.completion[1], r.completion[2], s6)
        base_completion == IF days_in_stage > 300
                           THEN Min(completion0 + 15, 95) ELSE completion0
        s7 == Advance(s6)
        s8 == Advance(s7)
        s9 == Advance(s8)
        s10 == Advance(s9)
        settlement_probability ==
            Max(5, Min(95, SettlementBase(department) + RandInt(-20, 20, s10)))
        s11 == Advance(s10)
    IN  [matter |->
           [matter_id |-> "MTR-2024-" \o IntStr(i + 1001),
            client_name |-> Choice(client_names, s7),
            department |-> department,
            stage_name |-> Choice(stage_names, s11),
            days_in_stage |-> days_in_stage,
            total_expenses |-> total_expenses,
            active_tasks |-> active_tasks,
            percent_complete |-> base_completion,
            responsible_staff |-> Choice(staff_names, s8),
            priority_level |-> ChoiceP(priorities, priority_weights, s9),
            settlement_probability |-> settlement_probability],
         rng |-> s11]

\* the loop: for i in range(limit), from pass i on
RECURSIVE MockMatters(_, _, _, _)
MockMatters(i, limit, departments_to_use, s) ==
    IF i >= limit THEN [matters |-> <<>>, rng |-> s]
    ELSE LET m == MockMatter(i, departments_to_use, s)
             rest == MockMatters(i + 1, limit, departments_to_use, m.rng)
         IN  [matters |-> <<m.matter>> \o rest.matters, rng |-> rest.rng]

\* _generate_sophisticated_mock_data(limit, department_filter): the record returned
\* and the state the generator is left in
GenerateSophisticatedMockData(limit, department_filter) ==
    LET departments_to_use == IF department_filter.given
                              THEN <<department_filter.value>> ELSE departments
        g == MockMatters(0, limit, departments_to_use, NpRandomSeed(MockSeed))
        ms == g.matters
    IN  [value |->
           [departments |-> ToList(ms, "department"),
            days_in_stage |-> ToList(ms, "days_in_stage"),
            total_expenses |-> ToList(ms, "total_expenses"),
            active_tasks |-> ToList(ms, "active_tasks"),
            percent_complete |-> ToList(ms, "percent_complete"),
            hover_text |-> [k \in 1..Len(ms) |->
                               HoverText(ms[k].matter_id, ms[k].client_name,
                                         ms[k].responsible_staff, ms[k].stage_name,
                                         ms[k].priority_level,
                                         ms[k].settlement_probability)],
            matter_ids |-> ToList(ms, "matter_id"),
            client_names |-> ToList(ms, "client_name"),
            responsible_staff |-> ToList(ms, "responsible_staff")],
         rng |-> g.rng]

-----------------------------------------------------------------------------
(* The three query methods of Matter3DAnalyticsService.  What a method did to  *)
(* the store is kept with its value: outcome is "unreachable" (connect         *)
(* raised), "query_error" (read_sql raised), "zero_rows" or "rows"; opened     *)
(* and closed tell whether sqlite3.connect returned a connection and whether   *)
(* conn.close() was executed on it.                                            *)

\* date_range_days: int = 365
DefaultDateRangeDays == 365

Did(value, outcome, opened, closed) ==
    [value |-> value, outcome |-> outcome, opened |-> opened, closed |-> closed]

\* _get_real_matter_data(limit, department_filter, date_range_days): None or the record
GetRealMatterData(store, limit, department_filter, date_range_days) ==
    IF ~store.reachable THEN Did(PyNone, "unreachable", FALSE, FALSE)
    ELSE LET df == ReadSqlStore(store, Matter3dQuery(store, limit, department_filter,
                                                     date_range_days))
         IN  IF df.error THEN Did(PyNone, "query_error", TRUE, FALSE)
             ELSE IF Len(df.rows) = 0 THEN Did(PyNone, "zero_rows", TRUE, TRUE)
             ELSE IF FormatRaises(df.rows) THEN Did(PyNone, "rows", TRUE, TRUE)
             ELSE Did(FormatDataframeFor3d(df.rows), "rows", TRUE, TRUE)


\* SUM and count over the values of a column carrying storage classes, NULLs skipped
RECURSIVE SumV(_, _)
SumV(S, f) ==
    IF S = {} THEN 0
    ELSE LET x == CHOOSE y \in S : TRUE
         IN  (IF x[f].t = "num" THEN x[f].v ELSE 0) + SumV(S \ {x}, f)

\* AVG(column): NULL when no row has a value
Avg(S, f) ==
    LET V == { x \in S : x[f].t = "num" }
    IN  IF V = {} THEN Null ELSE Num(Ratio(SumV(V, f), Cardinality(V)))

\* one row of: SELECT department, COUNT(*), AVG(days_in_stage), AVG(percent_complete),
\* SUM(COALESCE(expenses.total_expenses, 0)) ... GROUP BY department
SummaryRow(store, department) ==
    LET G == { m \in store.matters : m.department = department }
        E == { e \in expenses : \E m \in G : m.matter_id = e.matter_id }
    IN  [department |-> department,
         matter_count |-> Cardinality(G),
         avg_days |-> Ratio(SumOf(G, "days_in_stage"), Cardinality(G)),
         avg_completion |-> Avg(G, "percent_complete"),
         total_expenses |-> SumOf(E, "amount")]

\* ORDER BY matter_count DESC
RECURSIVE ByCountDesc(_)
ByCountDesc(S) ==
    IF S = {} THEN <<>>
    ELSE LET g == CHOOSE x \in S : \A y \in S : x.matter_count >= y.matter_count
         IN  <<g>> \o ByCountDesc(S \ {g})

DepartmentSummaryQuery(store) ==
    ByCountDesc({ SummaryRow(store, d) : d \in { m.department : m \in store.matters } })

\* the mock summary of the except branch
MockSummary ==
    [departments |-> departments,
     matter_counts |-> <<45, 38, 12, 23, 67, 34, 19, 8>>,
     avg_days |-> <<85, 156, 298, 189, 123, 267, 78, 445>>,
     avg_completion |-> <<65, 78, 45, 89, 72, 56, 92, 34>>,
     total_expenses |-> <<234567, 456789, 123456, 789012, 345678, 567890, 123890, 456123>>]

\* get_department_summary()
DepartmentSummary(store) ==
    IF ~store.reachable THEN Did(MockSummary, "unreachable", FALSE, FALSE)
    ELSE LET df == ReadSqlStore(store, DepartmentSummaryQuery(store))
         IN  IF df.error THEN Did(MockSummary, "query_error", TRUE, FALSE)
             ELSE Did([departments |-> ToList(df.rows, "department"),
                       matter_counts |-> ToList(df.rows, "matter_count"),
                       avg_days |-> ToList(df.rows, "avg_days"),
                       avg_completion |-> ToList(df.rows, "avg_completion"),
                       total_expenses |-> ToList(df.rows, "total_expenses")],
                      IF Len(df.rows) = 0 THEN "zero_rows" ELSE "rows", TRUE, TRUE)

\* SELECT m.*, COALESCE(e.total_expenses, 0), COALESCE(t.active_tasks, 0),
\* COALESCE(t.completed_tasks, 0) ... WHERE m.matter_id = ?
MatterDetailQuery(store, matter_id) ==
    LET Row(m) ==
          [k \in DOMAIN m \cup {"total_expenses", "active_tasks", "completed_tasks"} |->
             CASE k = "total_expenses" -> Coalesce(TotalExpenses(m.matter_id), 0)
               [] k = "active_tasks" -> Coalesce(TaskCount(m.matter_id, "active"), 0)
               [] k = "completed_tasks" ->
                    Coalesce(TaskCount(m.matter_id, "completed"), 0)
               [] OTHER -> m[k]]
    IN  ByCreatedDesc({ Row(m) : m \in { x \in store.matters : x.matter_id = matter_id } })

\* get_matter_detail(matter_id)
MatterDetail(store, matter_id) ==
    IF ~store.reachable THEN Did(PyNone, "unreachable", FALSE, FALSE)
    ELSE LET result3d == ReadSqlStore(store, MatterDetailQuery(store, matter_id))
         IN  IF result3d.error THEN Did(PyNone, "query_error", TRUE, FALSE)
             ELSE IF Len(result3d.rows) > 0 THEN Did(result3d.rows[1], "rows", TRUE, TRUE)
             ELSE Did(PyNone, "zero_rows", TRUE, TRUE)

\* calls of the three methods in one behaviour
MaxM3DCalls == 2

\* the values of the methods for the stores and arguments explored, computed once
RealMatterData ==
    [store \in Stores, limit \in 0..MaxLimit, department_filter \in Filters |->
        GetRealMatterData(store, limit, department_filter, DefaultDateRangeDays)]

MockData ==
    [limit \in 0..MaxLimit, department_filter \in Filters |->
        GenerateSophisticatedMockData(limit, department_filter)]

DepartmentSummaries == [store \in Stores |-> DepartmentSummary(store)]

MatterDetails ==
    [store \in Stores, matter_id \in DetailIds |-> MatterDetail(store, matter_id)]

NoCall == [op |-> "none"]

\* a method returns: d is what it did (every raise point of the three methods lies in
\* a try whose except clause returns a value, so none raises); a connection it opened and did not close is
\* unreferenced from then on, and whether its finalizer has closed it by the time the
\* caller has the value depends on the interpreter (finalized); the behaviours
\* explored call one of the three methods
Returns(op, args, d, value, path, finalized) ==
    /\ m3d_calls < MaxM3DCalls
    /\ m3d_last.op \in {"none", op}
    /\ m3d_calls' = m3d_calls + 1
    /\ m3d_prev' = m3d_last
    /\ m3d_last' = [op |-> op, args |-> args, outcome |-> d.outcome, path |-> path,
                    value |-> value, raised |-> FALSE, after_draws |-> other_draws,
                    opened |-> d.opened, closed |-> d.opened /\ (d.closed \/ finalized)]
    /\ open_conns' = IF d.opened /\ ~(d.closed \/ finalized)
                     THEN open_conns + 1 ELSE open_conns
    /\ other_draws' = FALSE
    /\ UNCHANGED <<net_vars, app_vars, ext_vars>>

\* whether the finalizer ran is open only for a connection left unclosed
Finalizations(d) == IF d.opened /\ ~d.closed THEN BOOLEAN ELSE {FALSE}

\* get_matter_3d_data(limit, department_filter): the except branch of lines 72-74 is
\* entered only if the mock generator raises, which it does for no integer limit
GetMatter3dData ==
    \E store \in Stores, limit \in 0..MaxLimit, department_filter \in Filters :
      \E real_data \in {RealMatterData[store, limit, department_filter]} :
        \E finalized \in Finalizations(real_data) :
          IF real_data.value # PyNone
          THEN /\ Returns("get_matter_3d_data",
                          [limit |-> limit, department_filter |-> department_filter],
                          real_data, real_data.value, "real", finalized)
               /\ UNCHANGED np_random
          ELSE \E mock \in {MockData[limit, department_filter]} :
                 /\ Returns("get_matter_3d_data",
                            [limit |-> limit, department_filter |-> department_filter],
                            real_data, mock.value, "mock", finalized)
                 /\ np_random' = mock.rng

GetDepartmentSummary ==
    \E store \in Stores :
      \E d \in {DepartmentSummaries[store]} :
        \E finalized \in Finalizations(d) :
          /\ Returns("get_department_summary", <<>>, d, d.value,
                     IF d.outcome \in {"unreachable", "query_error"}
                     THEN "mock" ELSE "real", finalized)
          /\ UNCHANGED np_random

GetMatterDetail ==
    \E store \in Stores, matter_id \in DetailIds :
      \E d \in {MatterDetails[store, matter_id]} :
        \E finalized \in Finalizations(d) :
          /\ Returns("get_matter_detail", [matter_id |-> matter_id], d, d.value,
                     "real", finalized)
          /\ UNCHANGED np_random

\* other code draws from numpy's global generator (components/matter_timeline.py,
\* components/matter_3_d_bubble.py)
OtherDraw ==
    /\ np_random' = Advance(np_random)
    /\ other_draws' = TRUE
    /\ UNCHANGED <<open_conns, m3d_last, m3d_prev, m3d_calls>>
    /\ UNCHANGED <<net_vars, app_vars, ext_vars>>

\* the garbage collector finalizes a connection left unclosed
Finalize ==
    /\ open_conns > 0
    /\ open_conns' = open_conns - 1
    /\ UNCHANGED <<np_random, m3d_last, m3d_prev, m3d_calls, other_draws>>
    /\ UNCHANGED <<net_vars, app_vars, ext_vars>>

M3DInit ==
    /\ np_random = 0
    /\ open_conns = 0
    /\ m3d_last = NoCall
    /\ m3d_prev = NoCall
    /\ m3d_calls = 0
    /\ other_draws = FALSE

M3DNext ==
    \/ GetMatter3dData
    \/ GetDepartmentSummary
    \/ GetMatterDetail
    \/ OtherDraw
    \/ Finalize

-----------------------------------------------------------------------------
(* The orchestration shell (app.py): the import of the module, the callback    *)
(* render_tab_content behind the sidebar and the refresh interval, and the     *)
(* /health route.  The browser holds dcc.Store 'dashboard-tabs'; one action is  *)
(* one round trip of the callback with what triggered it.  A panel is kept by   *)
(* what it shows.                                                               *)

\* the item ids of the sidebar, in the order of the Inputs
NavItems ==
    <<"overview", "lifecycle", "department", "matter3d", "matter-bubble",
      "matter-timeline", "bottlenecks", "analytics">>

\* ctx.triggered_id is falsy: nothing triggered the call (the call at page load)
NoTrigger == ""

\* sub in text
Contains(sub, text) ==
    \E i \in 1..(Len(text) - Len(sub) + 1) : SubSeq(text, i, i + Len(sub) - 1) = sub

\* variant: a call that no nav item triggered selects the overview
ActiveTabResetByRefresh(triggered_id, current_tab) ==
    IF triggered_id # NoTrigger
    THEN IF Contains("nav-overview", triggered_id) THEN "overview"
         ELSE IF Contains("nav-lifecycle", triggered_id) THEN "lifecycle"
         ELSE IF Contains("nav-department", triggered_id) THEN "department"
         ELSE IF Contains("nav-matter3d", triggered_id) THEN "matter3d"
         ELSE IF Contains("nav-matter-bubble", triggered_id) THEN "matter-bubble"
         ELSE IF Contains("nav-matter-timeline", triggered_id) THEN "matter-timeline"
         ELSE IF Contains("nav-bottlenecks", triggered_id) THEN "bottlenecks"
         ELSE IF Contains("nav-analytics", triggered_id) THEN "analytics"
         ELSE "overview"
    ELSE IF current_tab # "" THEN current_tab ELSE "overview"

\* the if/elif chain that maps the triggering id to active_tab
ActiveTab(triggered_id, current_tab) ==
    IF triggered_id # NoTrigger
    THEN IF Contains("nav-overview", triggered_id) THEN "overview"
         ELSE IF Contains("nav-lifecycle", triggered_id) THEN "lifecycle"
         ELSE IF Contains("nav-department", triggered_id) THEN "department"
         ELSE IF Contains("nav-matter3d", triggered_id) THEN "matter3d"
         ELSE IF Contains("nav-matter-bubble", triggered_id) THEN "matter-bubble"
         ELSE IF Contains("nav-matter-timeline", triggered_id) THEN "matter-timeline"
         ELSE IF Contains("nav-bottlenecks", triggered_id) THEN "bottlenecks"
         ELSE IF Contains("nav-analytics", triggered_id) THEN "analytics"
         ELSE IF current_tab # "" THEN current_tab ELSE "overview"
    ELSE IF current_tab # "" THEN current_tab ELSE "overview"

\* create_nav_item(item_id, label, icon, active_tab): the id and whether it is active
CreateNavItem(item_id, active_tab) ==
    [id |-> "nav-" \o item_id, n_clicks |-> 0, is_active |-> item_id = active_tab]

\* the try block that dispatches on active_tab; fails: the import of the view's module
\* or the creation of its layout raises
TabContent(active_tab, fails) ==
    IF active_tab \in Range(NavItems)
    THEN IF fails THEN [panel |-> "Error Loading Dashboard"]
         ELSE [panel |-> "layout", view |-> active_tab]
    ELSE [panel |-> "Invalid tab selection"]

\* variant: the exception of the view's layout leaves the callback, and the three
\* Outputs keep what they hold
RenderTabContentRaising(triggered_id, current_tab, fails) ==
    LET active_tab == ActiveTab(triggered_id, current_tab)
        nav == [k \in 1..Len(NavItems) |-> CreateNavItem(NavItems[k], active_tab)]
    IN  IF fails /\ active_tab \in Range(NavItems)
        THEN <<dashboard_content, current_tab, sidebar_nav>>
        ELSE <<TabContent(active_tab, fails), active_tab, nav>>

\* render_tab_content(n1, ..., n8, n_intervals, current_tab)
RenderTabContent(triggered_id, current_tab, fails) ==
    LET active_tab == ActiveTab(triggered_id, current_tab)
        nav == [k \in 1..Len(NavItems) |-> CreateNavItem(NavItems[k], active_tab)]
    IN  <<TabContent(active_tab, fails), active_tab, nav>>

\* the three Outputs are written
Rendered(triggered_id, fails) ==
    LET out == RenderTabContent(triggered_id, dashboard_tabs, fails)
    IN  /\ app_pc = "serving"
        /\ dashboard_content' = out[1]
        /\ dashboard_tabs' = out[2]
        /\ sidebar_nav' = out[3]
        /\ triggered' = triggered_id
        /\ load_failed' = fails
        /\ UNCHANGED <<app_pc, CLIOCORE_AVAILABLE, health>>
        /\ UNCHANGED <<net_vars, m3d_vars, ext_vars>>

\* refresh ticks of dcc.Interval in one behaviour
MaxIntervals == 2

\* the sidebar of app.layout
InitialSidebar == [k \in 1..Len(NavItems) |-> CreateNavItem(NavItems[k], "overview")]

\* the module is imported: the ClioCore imports succeed or raise ImportError, and the
\* layout is built with the store holding 'overview'
ImportApp ==
    /\ app_pc = "start"
    /\ app_pc' = "serving"
    /\ CLIOCORE_AVAILABLE' \in BOOLEAN
    /\ UNCHANGED <<dashboard_tabs, dashboard_content, sidebar_nav, triggered,
                   last_clicked, n_intervals, health, load_failed>>
    /\ UNCHANGED <<net_vars, m3d_vars, ext_vars>>

\* the call at page load (prevent_initial_call=False)
InitialCall ==
    /\ \E fails \in BOOLEAN : Rendered(NoTrigger, fails)
    /\ UNCHANGED <<last_clicked, n_intervals>>

\* the user clicks a nav item
ClickNav ==
    \E k \in 1..Len(NavItems) :
      /\ \E fails \in BOOLEAN : Rendered("nav-" \o NavItems[k], fails)
      /\ last_clicked' = NavItems[k]
      /\ UNCHANGED n_intervals

\* the refresh interval fires
IntervalTick ==
    /\ n_intervals < MaxIntervals
    /\ n_intervals' = n_intervals + 1
    /\ \E fails \in BOOLEAN : Rendered("interval-component", fails)
    /\ UNCHANGED last_clicked

\* variant: the endpoint reports the unavailability of ClioCore as a failure
HealthResponseDegraded ==
    IF CLIOCORE_AVAILABLE
    THEN [body |-> [status |-> "healthy", cliocore_available |-> TRUE], code |-> 200]
    ELSE [body |-> [status |-> "degraded", cliocore_available |-> FALSE], code |-> 503]

\* return status, 200
HealthResponse ==
    [body |-> [status |-> "healthy", cliocore_available |-> CLIOCORE_AVAILABLE],
     code |-> 200]

\* GET /health
HealthCheck ==
    /\ app_pc = "serving"
    /\ health' = HealthResponse
    /\ UNCHANGED <<app_pc, CLIOCORE_AVAILABLE, dashboard_tabs, dashboard_content,
                   sidebar_nav, triggered, last_clicked, n_intervals, load_failed>>
    /\ UNCHANGED <<net_vars, m3d_vars, ext_vars>>

NoResponse == [code |-> 0]

AppInit ==
    /\ app_pc = "start"
    /\ CLIOCORE_AVAILABLE = FALSE
    /\ dashboard_tabs = "overview"
    /\ dashboard_content = [panel |-> "none"]
    /\ sidebar_nav = InitialSidebar
    /\ triggered = NoTrigger
    /\ last_clicked = "none"
    /\ n_intervals = 0
    /\ health = NoResponse
    /\ load_failed = FALSE

AppNext ==
    \/ ImportApp
    \/ InitialCall
    \/ ClickNav
    \/ IntervalTick
    \/ HealthCheck

-----------------------------------------------------------------------------
(* The registration script (scripts/register_with_cfe.py): one behaviour is    *)
(* one run of main().  The manifest is the content of cfe_module_manifest.json *)
(* that passed _load_manifest; the resolver and the registry are outside the   *)
(* script and answer as they please.  reg_steps is the history of the steps    *)
(* run_full_registration began, reg_requests the POSTs that left the script.   *)

\* hosts a manifest may name under dependencies
ServiceNames == {"cliocore", "redis"}

\* services listed under required_services of one manifest
MaxServices == 2

ServiceLists == UNION { [1..n -> ServiceNames] : n \in 0..MaxServices }

OptionalLists == { <<>>, <<"grafana">> }

\* a manifest with the four fields _load_manifest requires; the keys the later steps
\* index without a default are present or not: discovery_keys (service.port,
\* service.health_endpoint, service.type, module.tags, module.version), named_checks
\* (every entry of monitoring.health_checks has 'name'), integration ('integration')
Manifests ==
    [required_services : ServiceLists,
     optional_services : OptionalLists,
     discovery_keys : BOOLEAN,
     named_checks : BOOLEAN,
     integration : BOOLEAN]

NoManifest == [loaded |-> FALSE]

\* what socket.gethostbyname does with a name: it returns, raises socket.gaierror, or
\* raises another exception (a name that cannot be encoded)
Resolvers == [ServiceNames \cup Range(<<"grafana">>) -> {"resolved", "gaierror", "raises"}]

NoResolver == [asked |-> FALSE]

\* the status the registry answers an accepted registration with
Created == 201

StatusCodes == {200, Created, 400, 500}

\* what response.json() finds in the body: a non-empty object, the empty object, or
\* no JSON at all
Bodies == {"object", "empty_object", "not_json"}

\* what requests.post does: it raises a RequestException before the registry saw the
\* request, or returns the registry's response
Responses ==
    {[kind |-> "RequestException"]}
        \cup { [kind |-> "response", status_code |-> s, body |-> b] :
                  s \in StatusCodes, b \in Bodies }

NoResponseYet == [kind |-> "none"]

\* the registry keeps the module exactly when it answers 201 Created
Accepts(response) == response.kind = "response" /\ response.status_code = Created

\* the first service of the list whose lookup does not return, 0 if there is none
FirstNotResolved(services, resolve) ==
    LET bad == { k \in 1..Len(services) : resolve[services[k]] # "resolved" }
    IN  IF bad = {} THEN 0 ELSE CHOOSE k \in bad : \A j \in bad : k <= j

\* the first service of the list whose lookup raises something else than gaierror
FirstRaising(services, resolve) ==
    LET bad == { k \in 1..Len(services) : resolve[services[k]] = "raises" }
    IN  IF bad = {} THEN 0 ELSE CHOOSE k \in bad : \A j \in bad : k <= j

\* variant: a required service that does not resolve only warns
CheckPrerequisitesLenient(m, resolve) ==
    [outcome |-> "True",
     looked_up |-> m.required_services \o m.optional_services,
     warnings |-> Cardinality({ k \in 1..Len(m.optional_services) :
                                   resolve[m.optional_services[k]] = "gaierror" })]

\* check_prerequisites(): outcome "True", "False" or "raised", the names looked up in
\* order, and the number of warnings logged
CheckPrerequisitesOf(m, resolve) ==
    LET req == m.required_services
        opt == m.optional_services
        r == FirstNotResolved(req, resolve)
        o == FirstRaising(opt, resolve)
        upto == IF o = 0 THEN Len(opt) ELSE o - 1
    IN  IF r # 0
        THEN [outcome |-> IF resolve[req[r]] = "gaierror" THEN "False" ELSE "raised",
              looked_up |-> SubSeq(req, 1, r),
              warnings |-> 0]
        ELSE [outcome |-> IF o = 0 THEN "True" ELSE "raised",
              looked_up |-> req \o SubSeq(opt, 1, IF o = 0 THEN Len(opt) ELSE o),
              warnings |-> Cardinality({ k \in 1..upto : resolve[opt[k]] = "gaierror" })]

\* variant: any response of the registry counts as a registration
RegisterModuleAnyStatus(response) ==
    IF response.kind = "RequestException"
    THEN [outcome |-> "value", value |-> PyNone]
    ELSE [outcome |-> "value", value |-> [json |-> "object"]]

\* register_module() given what requests.post did: the value returned, or "raised"
\* when response.json() raises an exception the method does not catch
RegisterModuleOf(response) ==
    IF response.kind = "RequestException"
    THEN [outcome |-> "value", value |-> PyNone]
    ELSE IF response.status_code = Created
         THEN IF response.body = "not_json"
              THEN [outcome |-> "raised"]
              ELSE [outcome |-> "value", value |-> [json |-> response.body]]
         ELSE [outcome |-> "value", value |-> PyNone]

\* bool(registration_result)
Truthy(value) == value # PyNone /\ value # [json |-> "empty_object"]

\* the six steps of run_full_registration in the order of its body
RegistrationSteps ==
    <<"check_prerequisites", "register_module", "configure_service_discovery",
      "setup_monitoring", "validate_integration", "create_deployment_plan">>

\* run_full_registration returns value
RegReturn(value) ==
    /\ reg_pc' = "returned"
    /\ reg_result' = value

\* CFEModuleRegistrar(): the manifest is loaded and has its required fields
Construct ==
    /\ reg_pc = "start"
    /\ manifest' \in Manifests
    /\ reg_pc' = "check_prerequisites"
    /\ UNCHANGED <<reg_steps, reg_requests, registry_accepted, reg_response,
                   reg_resolver, reg_warnings, reg_result>>
    /\ UNCHANGED not_reg_vars

\* Step 1: if not self.check_prerequisites(): return False
CheckPrerequisites ==
    /\ reg_pc = "check_prerequisites"
    /\ reg_steps' = Append(reg_steps, "check_prerequisites")
    /\ \E resolve \in Resolvers :
         LET c == CheckPrerequisitesOf(manifest, resolve)
         IN  /\ reg_resolver' = resolve
             /\ reg_warnings' = c.warnings
             /\ IF c.outcome = "True"
                THEN reg_pc' = "register_module" /\ UNCHANGED reg_result
                ELSE RegReturn("False")
    /\ UNCHANGED <<manifest, reg_requests, registry_accepted, reg_response>>
    /\ UNCHANGED not_reg_vars

\* Step 2: registration_result = self.register_module(); if not registration_result:
\* return False
RegisterModule ==
    /\ reg_pc = "register_module"
    /\ reg_steps' = Append(reg_steps, "register_module")
    /\ \E response \in Responses :
         LET r == RegisterModuleOf(response)
         IN  /\ reg_response' = response
             /\ reg_requests' = reg_requests + (IF response.kind = "response" THEN 1 ELSE 0)
             /\ registry_accepted' = Accepts(response)
             /\ IF r.outcome = "value" /\ Truthy(r.value)
                THEN reg_pc' = "configure_service_discovery" /\ UNCHANGED reg_result
                ELSE RegReturn("False")
    /\ UNCHANGED <<manifest, reg_resolver, reg_warnings>>
    /\ UNCHANGED not_reg_vars

\* a step after the registration: it raises KeyError, which the except clause of
\* run_full_registration turns into False, or it is followed by the next step
LaterStep(step, raises, next) ==
    /\ reg_steps' = Append(reg_steps, step)
    /\ IF raises
       THEN RegReturn("False")
       ELSE reg_pc' = next /\ UNCHANGED reg_result
    /\ UNCHANGED <<manifest, reg_requests, registry_accepted, reg_response,
                   reg_resolver, reg_warnings>>
    /\ UNCHANGED not_reg_vars

\* Step 3: discovery_config = self.configure_service_discovery()
ConfigureServiceDiscovery ==
    /\ reg_pc = "configure_service_discovery"
    /\ LaterStep("configure_service_discovery", ~manifest.discovery_keys, "setup_monitoring")

\* Step 4: self.setup_monitoring()
SetupMonitoring ==
    /\ reg_pc = "setup_monitoring"
    /\ LaterStep("setup_monitoring", ~manifest.named_checks, "validate_integration")

\* Step 5: self.validate_integration()
ValidateIntegration ==
    /\ reg_pc = "validate_integration"
    /\ LaterStep("validate_integration", ~manifest.integration, "create_deployment_plan")

\* Step 6: deployment_plan = self.create_deployment_plan(); return True
CreateDeploymentPlan ==
    /\ reg_pc = "create_deployment_plan"
    /\ reg_steps' = Append(reg_steps, "create_deployment_plan")
    /\ RegReturn("True")
    /\ UNCHANGED <<manifest, reg_requests, registry_accepted, reg_response,
                   reg_resolver, reg_warnings>>
    /\ UNCHANGED not_reg_vars

RegInit ==
    /\ reg_pc = "start"
    /\ manifest = NoManifest
    /\ reg_steps = <<>>
    /\ reg_requests = 0
    /\ registry_accepted = FALSE
    /\ reg_response = NoResponseYet
    /\ reg_resolver = NoResolver
    /\ reg_warnings = 0
    /\ reg_result = "none"

RegNext ==
    \/ Construct
    \/ CheckPrerequisites
    \/ RegisterModule
    \/ ConfigureServiceDiscovery
    \/ SetupMonitoring
    \/ ValidateIntegration
    \/ CreateDeploymentPlan

-----------------------------------------------------------------------------
(* The validation script (scripts/validate_config.py): one behaviour is one    *)
(* run of main().  What a check finds depends on the files, the environment    *)
(* and Docker; a check is kept by what it does to the validator: the number of *)
(* log_error and log_warning calls it makes and whether it raises.  The lists  *)
(* self.errors and self.warnings are kept by their length.                     *)

\* validation_checks of run_comprehensive_validation
validation_checks ==
    <<"validate_manifest", "validate_docker_configuration",
      "validate_environment_variables", "validate_dependencies", "validate_scripts",
      "validate_network_connectivity", "validate_service_configuration",
      "validate_documentation", "validate_security_configuration">>

\* the checks whose body calls log_error
LogsErrors ==
    {"validate_manifest", "validate_docker_configuration",
     "validate_environment_variables", "validate_scripts",
     "validate_network_connectivity"}

\* the checks whose body calls log_warning
LogsWarnings ==
    {"validate_environment_variables", "validate_dependencies", "validate_scripts",
     "validate_network_connectivity", "validate_service_configuration",
     "validate_documentation", "validate_security_configuration"}

\* findings of one kind one check logs
MaxFindings == 1

\* what one call of a check can do
CheckOutcomes(check) ==
    [errors : 0..(IF check \in LogsErrors THEN MaxFindings ELSE 0),
     warnings : 0..(IF check \in LogsWarnings THEN MaxFindings ELSE 0),
     raises : BOOLEAN]

\* variant: the exception of a check is swallowed without a record
ErrorsAfterCheckSilent(errs, outcome) == errs + outcome.errors

\* len(self.errors) after try: check() except Exception as e: self.log_error(...)
ErrorsAfterCheck(errs, outcome) ==
    errs + outcome.errors + (IF outcome.raises THEN 1 ELSE 0)

\* variant: warnings fail the validation too
ValidationResultStrict(errs, warns) ==
    IF errs = 0 /\ warns = 0 THEN "True" ELSE "False"

\* return len(self.errors) == 0
ValidationResult(errs, warns) == IF errs = 0 THEN "True" ELSE "False"

\* the headline of the summary report
ReportHeadline(errs, warns) ==
    IF errs = 0 /\ warns = 0 THEN "ALL VALIDATIONS PASSED!"
    ELSE IF errs = 0 THEN "VALIDATION PASSED WITH WARNINGS"
    ELSE "VALIDATION FAILED WITH ERRORS"

\* CFEIntegrationValidator()
NewValidator ==
    /\ val_pc = "start"
    /\ val_pc' = "checks"
    /\ errors' = 0
    /\ warnings' = 0
    /\ UNCHANGED <<val_ran, val_logged, val_raised, val_report, val_result>>
    /\ UNCHANGED not_val_vars

\* one iteration of for check in validation_checks
RunCheck ==
    /\ val_pc = "checks"
    /\ Len(val_ran) < Len(validation_checks)
    /\ LET check == validation_checks[Len(val_ran) + 1]
       IN  /\ val_ran' = Append(val_ran, check)
           /\ \E outcome \in CheckOutcomes(check) :
                /\ errors' = ErrorsAfterCheck(errors, outcome)
                /\ warnings' = warnings + outcome.warnings
                /\ val_logged' = val_logged + outcome.errors
                /\ val_raised' = val_raised + (IF outcome.raises THEN 1 ELSE 0)
    /\ UNCHANGED <<val_pc, val_report, val_result>>
    /\ UNCHANGED not_val_vars

\* the summary report and the return
Report ==
    /\ val_pc = "checks"
    /\ Len(val_ran) = Len(validation_checks)
    /\ val_pc' = "returned"
    /\ val_report' = ReportHeadline(errors, warnings)
    /\ val_result' = ValidationResult(errors, warnings)
    /\ UNCHANGED <<errors, warnings, val_ran, val_logged, val_raised>>
    /\ UNCHANGED not_val_vars

ValInit ==
    /\ val_pc = "start"
    /\ errors = 0
    /\ warnings = 0
    /\ val_ran = <<>>
    /\ val_logged = 0
    /\ val_raised = 0
    /\ val_report = "none"
    /\ val_result = "none"

ValNext ==
    \/ NewValidator
    \/ RunCheck
    \/ Report

-----------------------------------------------------------------------------
(* The bottlenecks view (layouts/bottlenecks.py).  A record of bottleneck      *)
(* data holds three lists; a component of the layout is kept by the values it  *)
(* shows, without its styling.  One behaviour is one call.                     *)

\* stages of one record drawn as an argument of create_priority_matrix, and rows of
\* one stage distribution read by the lifecycle view
MaxStages == 2

\* default value of dict.get in the sort key
UnknownPriorityOrder == 4

\* the placeholder of the 'Overdue Tasks' card
OverdueTasksPlaceholder == 23

BottleneckStages ==
    <<"Investigation", "Negotiation", "Litigation", "Settlement", "Documentation",
      "Closing">>

\* the record returned when ClioCore is not available
MockBottleneckData ==
    [stages |-> BottleneckStages,
     stuck_counts |-> <<8, 15, 12, 5, 3, 2>>,
     avg_stuck_days |-> <<95, 120, 150, 85, 60, 45>>]

\* the placeholder returned when MatterLifecycle(backend='sqlite') could be built
PlaceholderBottleneckData ==
    [stages |-> SubSeq(BottleneckStages, 1, 3),
     stuck_counts |-> <<8, 15, 12>>,
     avg_stuck_days |-> <<95, 120, 150>>]

EmptyBottleneckData == [stages |-> <<>>, stuck_counts |-> <<>>, avg_stuck_days |-> <<>>]

\* get_bottleneck_data(): cliocore_available is the flag set at the import of
\* bottlenecks.py, raises tells whether the constructor of MatterLifecycle raises
GetBottleneckData(cliocore_available, raises) ==
    IF ~cliocore_available THEN MockBottleneckData
    ELSE IF raises THEN EmptyBottleneckData
    ELSE PlaceholderBottleneckData

\* values around the thresholds of the priority matrix
CountValues == {3, 4, 5, 6, 10, 11}

DayValues == {90, 91, 120, 121}

\* records of n stages with a count and a duration per stage
BottleneckRecords ==
    UNION { [stages : {SubSeq(BottleneckStages, 1, n)},
             stuck_counts : [1..n -> CountValues],
             avg_stuck_days : [1..n -> DayValues]] : n \in 0..MaxStages }

RECURSIVE SeqSum(_)
SeqSum(s) == IF s = <<>> THEN 0 ELSE s[1] + SeqSum(Tail(s))

\* variant: the count alone decides Critical, as on the alert card
PriorityByCountOnly(count, days) ==
    IF count > 10 THEN "Critical"
    ELSE IF count > 5 /\ days > 90 THEN "High"
    ELSE IF count > 3 THEN "Medium"
    ELSE "Low"

\* the if/elif chain of create_priority_matrix
Priority(count, days) ==
    IF count > 10 /\ days > 120 THEN "Critical"
    ELSE IF count > 5 /\ days > 90 THEN "High"
    ELSE IF count > 3 THEN "Medium"
    ELSE "Low"

\* priority_order.get(x['priority'], 4)
PriorityOrder(priority) ==
    CASE priority = "Critical" -> 0
      [] priority = "High" -> 1
      [] priority = "Medium" -> 2
      [] priority = "Low" -> 3
      [] OTHER -> UnknownPriorityOrder

\* the items of zip(stages, stuck_counts, avg_stuck_days), in input order
PriorityItems(data) ==
    [k \in 1..Min(Len(data.stages), Min(Len(data.stuck_counts), Len(data.avg_stuck_days))) |->
        [stage |-> data.stages[k],
         count |-> data.stuck_counts[k],
         days |-> data.avg_stuck_days[k],
         priority |-> Priority(data.stuck_counts[k], data.avg_stuck_days[k])]]

\* variant: an item goes before the items of its own priority
InsertItemBeforeEqual(sorted, item) ==
    LET n == Cardinality({ k \in 1..Len(sorted) :
                 PriorityOrder(sorted[k].priority) < PriorityOrder(item.priority) })
    IN  SubSeq(sorted, 1, n) \o <<item>> \o SubSeq(sorted, n + 1, Len(sorted))

\* one step of the stable sort: the item goes behind the items whose key is not larger
InsertItem(sorted, item) ==
    LET n == Cardinality({ k \in 1..Len(sorted) :
                 PriorityOrder(sorted[k].priority) <= PriorityOrder(item.priority) })
    IN  SubSeq(sorted, 1, n) \o <<item>> \o SubSeq(sorted, n + 1, Len(sorted))

\* items.sort(key=lambda x: priority_order.get(x['priority'], 4))
RECURSIVE SortItems(_)
SortItems(items) ==
    IF items = <<>> THEN <<>>
    ELSE InsertItem(SortItems(SubSeq(items, 1, Len(items) - 1)), items[Len(items)])

\* create_priority_matrix(bottleneck_data)
CreatePriorityMatrix(data) ==
    IF data.stages = <<>>
    THEN [panel |-> "No data available"]
    ELSE [panel |-> "matrix", items |-> SortItems(PriorityItems(data))]

\* the values of the four alert cards of create_layout
AlertCards(data) ==
    [critical_bottlenecks |->
        Cardinality({ k \in 1..Len(data.stuck_counts) : data.stuck_counts[k] > 10 }),
     stuck_matters |-> IF data.stuck_counts # <<>> THEN SeqSum(data.stuck_counts) ELSE 0,
     avg_stuck_duration |->
        IF data.avg_stuck_days # <<>>
        THEN IntStr(SeqSum(data.avg_stuck_days) \div Len(data.avg_stuck_days)) \o "d"
        ELSE "0d",
     overdue_tasks |-> OverdueTasksPlaceholder]

NoBottleneckData == [fetched |-> FALSE]

NoCards == [shown |-> FALSE]

NoMatrix == [panel |-> "none"]

\* bottlenecks.create_layout(COLORS)
BottleneckCreateLayout ==
    /\ bn_op = "none"
    /\ \E cliocore_available, raises \in BOOLEAN :
         LET data == GetBottleneckData(cliocore_available, raises)
         IN  /\ bottleneck_data' = data
             /\ alert_cards' = AlertCards(data)
             /\ priority_matrix' = CreatePriorityMatrix(data)
    /\ bn_op' = "create_layout"
    /\ UNCHANGED not_bn_vars

\* create_priority_matrix called with a record of its own
CreatePriorityMatrixCall ==
    /\ bn_op = "none"
    /\ \E data \in BottleneckRecords :
         /\ bottleneck_data' = data
         /\ priority_matrix' = CreatePriorityMatrix(data)
    /\ alert_cards' = NoCards
    /\ bn_op' = "create_priority_matrix"
    /\ UNCHANGED not_bn_vars

BnInit ==
    /\ bn_op = "none"
    /\ bottleneck_data = NoBottleneckData
    /\ alert_cards = NoCards
    /\ priority_matrix = NoMatrix

BnNext ==
    \/ BottleneckCreateLayout
    \/ CreatePriorityMatrixCall

-----------------------------------------------------------------------------
(* The lifecycle view (layouts/lifecycle.py).  The stage distribution is what  *)
(* MatterLifecycle.get_stage_distribution returns: a frame with a stage_name   *)
(* and a matters_count per row, or an exception.                               *)

LifecycleStages ==
    <<"Client Onboarding", "Investigation", "Negotiation", "Litigation", "Settlement",
      "Closed">>

\* the record returned when ClioCore is not available
MockStageData ==
    [stages |-> LifecycleStages,
     counts |-> <<15, 32, 28, 18, 12, 5>>,
     avg_days |-> <<7, 45, 62, 120, 30, 0>>]

EmptyStageData == [stages |-> <<>>, counts |-> <<>>, avg_days |-> <<>>]

\* the list the duration chart shows when the record has no durations
MockAvgDays == <<7, 45, 62, 120, 30, 5>>

DistributionRows ==
    [stage_name : {"Intake", "Investigation", "Litigation", "Closed"},
     matters_count : {0, 1, 7}]

\* what get_stage_distribution() does
StageDistributions ==
    {[raised |-> TRUE]}
        \cup { [raised |-> FALSE, rows |-> r] :
                  r \in UNION { [1..n -> DistributionRows] : n \in 0..MaxStages } }

\* get_stage_data()
GetStageData(cliocore_available, stage_dist) ==
    IF ~cliocore_available THEN MockStageData
    ELSE IF stage_dist.raised THEN EmptyStageData
    ELSE IF stage_dist.rows # <<>>
         THEN [stages |-> [k \in 1..Len(stage_dist.rows) |-> stage_dist.rows[k].stage_name],
               counts |-> [k \in 1..Len(stage_dist.rows) |-> stage_dist.rows[k].matters_count],
               avg_days |-> [k \in 1..Len(stage_dist.rows) |-> 0]]
         ELSE EmptyStageData

\* go.Figure()
EmptyFigure == [traces |-> <<>>]

\* create_stage_duration_chart(stage_data), sd its argument: the Bar trace of the figure
CreateStageDurationChart(sd) ==
    IF sd.stages = <<>>
    THEN EmptyFigure
    ELSE LET avg_days ==
                 IF sd.avg_days = <<>>
                    \/ \A k \in 1..Len(sd.avg_days) : sd.avg_days[k] = 0
                 THEN MockAvgDays
                 ELSE sd.avg_days
         IN  [traces |->
                <<[x |-> SubSeq(sd.stages, 1,
                                Min(Len(sd.stages), Len(avg_days))),
                   y |-> avg_days,
                   text |-> [k \in 1..Len(avg_days) |-> IntStr(avg_days[k]) \o "d"]]>>]

NoStageData == [fetched |-> FALSE]

\* lifecycle.create_layout(COLORS)
LifecycleCreateLayout ==
    /\ \E cliocore_available \in BOOLEAN, stage_dist \in StageDistributions :
         LET data == GetStageData(cliocore_available, stage_dist)
         IN  /\ stage_data' = data
             /\ stage_dist_read' = IF cliocore_available THEN stage_dist ELSE NoStageData
             /\ duration_chart' = CreateStageDurationChart(data)
    /\ UNCHANGED not_lc_vars

LcInit ==
    /\ stage_data = NoStageData
    /\ stage_dist_read = NoStageData
    /\ duration_chart = EmptyFigure

LcNext == LifecycleCreateLayout

-----------------------------------------------------------------------------
(* The matter timeline (components/matter_timeline.py): generate_timeline_data *)
(* as update_timeline_chart calls it.  It seeds and draws from numpy's global  *)
(* generator, the one Matter3DAnalyticsService draws from.  A date is the      *)
(* number of days after base_date.  One action is one pass of the loop over    *)
(* the matters up to its first stage, or one pass of the loop over the stages. *)

\* np.random.seed(42)
TimelineSeed == 42

\* limit of one call
MaxTimelineLimit == 3

\* the first year of the matter ids and the number of the first matter
FirstMatterYear == 2023

FirstMatterNumber == 1001

timeline_departments ==
    <<"Prelitigation", "Litigation", "Discovery", "Settlement", "Trial Prep", "Appeals">>

timeline_stages ==
    <<"Initial Review", "Investigation", "Filing", "Discovery", "Mediation",
      "Trial Prep", "Settlement", "Closed">>

timeline_staff_names ==
    <<"Travis Crawford", "Lisa Litigator", "Amy Assistant", "Paul Prelit",
      "Nina Assistant", "Omar Ops", "Ivy Intake">>

\* the choices of num_stages and their probabilities in percent
NumStagesChoices == <<3, 4, 5, 6, 7>>

NumStagesWeights == <<10, 20, 30, 30, 10>>

\* values of the department filter: None, a department of the list, another text
TimelineFilters == {NoFilter, Filter("Litigation"), Filter("Probate")}

\* departments after: if department_filter: departments = [department_filter] if
\* department_filter in departments else departments
TimelineDepartments(department_filter) ==
    IF department_filter.given /\ department_filter.value \in Range(timeline_departments)
    THEN <<department_filter.value>>
    ELSE timeline_departments

\* f"MTR-{2023 + i//100}-{i+1001:04d}"
TimelineMatterId(i) ==
    "MTR-" \o IntStr(FirstMatterYear + i \div 100) \o "-" \o IntStr(i + FirstMatterNumber)

\* f"Client {chr(65 + i%26)}{i//26 + 1}"
TimelineClientName(i) ==
    "Client " \o SubSeq("ABCDEFGHIJKLMNOPQRSTUVWXYZ", (i % 26) + 1, (i % 26) + 1)
              \o IntStr(i \div 26 + 1)

\* duration_days of a stage, read off the generator state s
StageDurationDays(stage, s) ==
    IF stage \in {"Initial Review", "Filing"} THEN RandInt(5, 30, s)
    ELSE IF stage \in {"Investigation", "Discovery"} THEN RandInt(30, 120, s)
    ELSE IF stage \in {"Mediation", "Settlement"} THEN RandInt(15, 60, s)
    ELSE IF stage \in {"Trial Prep"} THEN RandInt(60, 180, s)
    ELSE RandInt(10, 45, s)

\* whether the completion of stage j of n is drawn
DrawsCompletion(j, n, stage) == j = n - 1 /\ stage # "Closed"

\* variant: the completion of every stage is drawn
StageCompletionAllDrawn(j, n, stage, s) == RandInt(60, 95, s)

\* completion of stage j (from 0) of n, s the state after its draw if it has one
StageCompletion(j, n, stage, s) ==
    IF j = n - 1
    THEN IF stage = "Closed" THEN 100 ELSE RandInt(60, 95, s)
    ELSE 100

\* variant: the next stage may start on the day the stage ends
NextStageStartNoGap(stage_end, s) == stage_end + RandInt(0, 7, s)

\* current_date = stage_end + timedelta(days=np.random.randint(1, 7))
NextStageStart(stage_end, s) == stage_end + RandInt(1, 7, s)

NoTimelineArgs == [called |-> FALSE]

NoMatter == [begun |-> FALSE]

\* the variables of Matter3DAnalyticsService but the generator
m3d_rest == <<open_conns, m3d_last, m3d_prev, m3d_calls>>

\* generate_timeline_data(department_filter, limit) up to the loop
GenerateTimelineData ==
    /\ tl_pc \in {"idle", "returned"}
    /\ \E department_filter \in TimelineFilters, limit \in 0..MaxTimelineLimit :
         tl_args' = [department_filter |-> department_filter, limit |-> limit]
    /\ np_random' = NpRandomSeed(TimelineSeed)
    /\ other_draws' = TRUE
    /\ tl_pc' = "matters"
    /\ tl_i' = 0
    /\ tl_matters' = <<>>
    /\ tl_matter' = NoMatter
    /\ matter_stages' = <<>>
    /\ current_date' = 0
    /\ UNCHANGED tl_df
    /\ UNCHANGED <<m3d_rest, not_tl_vars>>

\* for i in range(limit): the body up to the loop over the stages
BeginMatter ==
    /\ tl_pc = "matters"
    /\ tl_i < tl_args.limit
    /\ LET s1 == Advance(np_random)
           s2 == Advance(s1)
           s3 == Advance(s2)
           s4 == Advance(s3)
       IN  /\ tl_matter' =
                [matter_id |-> TimelineMatterId(tl_i),
                 client_name |-> TimelineClientName(tl_i),
                 department |-> Choice(TimelineDepartments(tl_args.department_filter), s1),
                 responsible_staff |-> Choice(timeline_staff_names, s2),
                 num_stages |-> ChoiceP(NumStagesChoices, NumStagesWeights, s4)]
           /\ current_date' = RandInt(0, 600, s3)
           /\ np_random' = s4
    /\ matter_stages' = <<>>
    /\ tl_pc' = "stages"
    /\ UNCHANGED <<tl_args, tl_i, tl_matters, tl_df, other_draws>>
    /\ UNCHANGED <<m3d_rest, not_tl_vars>>

\* for j, stage in enumerate(selected_stages): one pass; after the last one the rows
\* of the matter are added to matters
AppendStage ==
    /\ tl_pc = "stages"
    /\ LET j == Len(matter_stages)
           n == tl_matter.num_stages
           stage == timeline_stages[j + 1]
           s1 == Advance(np_random)
           stage_end == current_date + StageDurationDays(stage, s1)
           s2 == IF DrawsCompletion(j, n, stage) THEN Advance(s1) ELSE s1
           completion == StageCompletion(j, n, stage, s2)
           s3 == Advance(s2)
           row == [matter_id |-> tl_matter.matter_id,
                   client_name |-> tl_matter.client_name,
                   department |-> tl_matter.department,
                   responsible_staff |-> tl_matter.responsible_staff,
                   stage_name |-> stage,
                   start_date |-> current_date,
                   end_date |-> stage_end,
                   completion_pct |-> completion,
                   is_current |-> (j = n - 1 /\ completion < 100),
                   stage_order |-> j + 1,
                   total_stages |-> n]
       IN  /\ current_date' = NextStageStart(stage_end, s3)
           /\ np_random' = s3
           /\ IF j = n - 1
              THEN /\ tl_matters' = tl_matters \o Append(matter_stages, row)
                   /\ matter_stages' = <<>>
                   /\ tl_i' = tl_i + 1
                   /\ tl_pc' = "matters"
              ELSE /\ matter_stages' = Append(matter_stages, row)
                   /\ UNCHANGED <<tl_matters, tl_i, tl_pc>>
    /\ UNCHANGED <<tl_args, tl_matter, tl_df, other_draws>>
    /\ UNCHANGED <<m3d_rest, not_tl_vars>>

\* return pd.DataFrame(matters)
TimelineReturn ==
    /\ tl_pc = "matters"
    /\ tl_i >= tl_args.limit
    /\ tl_df' = tl_matters
    /\ tl_pc' = "returned"
    /\ UNCHANGED <<tl_args, tl_i, tl_matter, matter_stages, current_date, tl_matters,
                   np_random, other_draws>>
    /\ UNCHANGED <<m3d_rest, not_tl_vars>>

TlInit ==
    /\ tl_pc = "idle"
    /\ tl_args = NoTimelineArgs
    /\ tl_i = 0
    /\ tl_matter = NoMatter
    /\ matter_stages = <<>>
    /\ current_date = 0
    /\ tl_matters = <<>>
    /\ tl_df = <<>>

TlNext ==
    \/ GenerateTimelineData
    \/ BeginMatter
    \/ AppendStage
    \/ TimelineReturn

-----------------------------------------------------------------------------
(* The specifications: one per component, the other components at rest *)

Init ==
    NetInit /\ M3DInit /\ AppInit /\ RegInit /\ ValInit /\ BnInit /\ LcInit /\ TlInit

Next == NetNext

Spec == Init /\ [][Next]_vars

M3DSpec == Init /\ [][M3DNext]_vars

AppSpec == Init /\ [][AppNext]_vars

RegSpec == Init /\ [][RegNext]_vars

ValSpec == Init /\ [][ValNext]_vars

BottleneckSpec == Init /\ [][BnNext]_vars

LifecycleSpec == Init /\ [][LcNext]_vars

TimelineSpec == Init /\ [][TlNext]_vars

-----------------------------------------------------------------------------
(* Properties *)

NodeIds(ns) == { ns[k].id : k \in 1..Len(ns) }

IsEdge(e) == "source" \in DOMAIN e

IsNode(e) == ~IsEdge(e)

\* the node elements and the edge elements of a returned payload
PayloadNodes(r) == SelectSeq(r.elements, IsNode)

PayloadEdges(r) == SelectSeq(r.elements, IsEdge)

IsNodeEv(ev) == ev.op = "node"

IsEdgeEv(ev) == ev.op = "edge"

IsLookupEv(ev) == ev.op = "lookup"

\* the history agrees with the lists: same appends, same order
TraceMatchesLists ==
    /\ LET ne == SelectSeq(trace, IsNodeEv)
       IN  /\ Len(ne) = Len(nodes)
           /\ \A k \in 1..Len(ne) : ne[k].a = nodes[k].id
    /\ LET ee == SelectSeq(trace, IsEdgeEv)
       IN  /\ Len(ee) = Len(edges)
           /\ \A k \in 1..Len(ee) : ee[k].a = edges[k].source /\ ee[k].b = edges[k].target
    /\ LET le == SelectSeq(trace, IsLookupEv)
       IN  /\ Len(le) = Len(lookups)
           /\ \A k \in 1..Len(le) : le[k].a = lookups[k].fn /\ le[k].b = lookups[k].id

\* C1: at every point of the aggregation of each of the three queries, every edge
\* appended so far was appended after the nodes its source and its target name, so its
\* source and target are ids of nodes of the node list; and in a returned payload every
\* edge element's source and target is the id of a node element of that payload.
C1_EdgesReferenceEmittedNodes ==
    /\ TraceMatchesLists
    /\ \A k \in 1..Len(trace) :
         trace[k].op = "edge" =>
            /\ \E i \in 1..(k - 1) : trace[i].op = "node" /\ trace[i].a = trace[k].a
            /\ \E j \in 1..(k - 1) : trace[j].op = "node" /\ trace[j].a = trace[k].b
    /\ \A k \in 1..Len(edges) :
         edges[k].source \in NodeIds(nodes) /\ edges[k].target \in NodeIds(nodes)
    /\ result.returned =>
         \A k \in 1..Len(PayloadEdges(result)) :
            /\ PayloadEdges(result)[k].source \in NodeIds(PayloadNodes(result))
            /\ PayloadEdges(result)[k].target \in NodeIds(PayloadNodes(result))

\* a family payload with a family edge and owns edges has been returned
C1_Witness ==
    /\ pc = "returned"
    /\ query = "family"
    /\ Len(edges) >= 3
    /\ Len(PayloadEdges(result)) = Len(edges)

\* C2: for every row sequence of each of the three queries, no two nodes of the node
\* list, and no two node elements of the returned payload, have the same id.
C2_NoDuplicateNodeIds ==
    /\ \A i, j \in 1..Len(nodes) : nodes[i].id = nodes[j].id => i = j
    /\ result.returned =>
         LET pn == PayloadNodes(result)
         IN  \A i, j \in 1..Len(pn) : pn[i].id = pn[j].id => i = j

\* a vendor payload built from two rows of different vendors that share a matter
C2_Witness ==
    /\ pc = "returned"
    /\ query = "vendor"
    /\ Len(rows) = 2
    /\ rows[1].matter_id = rows[2].matter_id
    /\ rows[1].vendor_id # rows[2].vendor_id
    /\ Len(PayloadNodes(result)) = Len(nodes)

\* how often x occurs in the sequence s
Count(s, x) == Cardinality({ k \in 1..Len(s) : s[k] = x })

\* C3: the family query emits for every input row a family edge between the row's two
\* client nodes, and for every client of a row and every matter id listed for that
\* client in that row an owns edge from the client's node to the matter's node, also
\* when the matter is listed for more than one client or in more than one row.
C3_FamilyAndOwnsEdgePerListing ==
    (pc = "returned" /\ query = "family") =>
        \A k \in 1..Len(rows) :
            /\ FamilyEdge(rows[k]) \in Range(edges)
            /\ \A m \in Range(rows[k].client1_matters) :
                 OwnsEdge(rows[k].client1_id, m) \in Range(edges)
            /\ \A m \in Range(rows[k].client2_matters) :
                 OwnsEdge(rows[k].client2_id, m) \in Range(edges)

\* C4: in the vendor and the staff query every relationship of every input row is an
\* edge of the output: used_in and owns for a vendor row, works_in and assigned_to for
\* a staff row.
C4_EdgePerRowRelationship ==
    /\ (pc = "returned" /\ query = "vendor") =>
          \A k \in 1..Len(rows) :
              /\ UsedInEdge(rows[k]) \in Range(edges)
              /\ OwnsEdge(rows[k].client_id, rows[k].matter_id) \in Range(edges)
    /\ (pc = "returned" /\ query = "staff") =>
          \A k \in 1..Len(rows) :
              /\ WorksInEdge(rows[k]) \in Range(edges)
              /\ AssignedToEdge(rows[k]) \in Range(edges)

\* C5: edges are never deduplicated: a row occurring k times (k >= 2) in the input
\* leaves k edge records in the output for each of its relationships.
C5_RepeatedRowsRepeatEdges ==
    pc = "returned" =>
        \A k \in 1..Len(rows) :
            LET r == rows[k]
                n == Count(rows, r)
            IN  n >= 2 =>
                /\ query = "family" =>
                     /\ Count(edges, FamilyEdge(r)) >= n
                     /\ \A m \in Range(r.client1_matters) :
                          Count(edges, OwnsEdge(r.client1_id, m)) >= n
                     /\ \A m \in Range(r.client2_matters) :
                          Count(edges, OwnsEdge(r.client2_id, m)) >= n
                /\ query = "vendor" =>
                     /\ Count(edges, UsedInEdge(r)) >= n
                     /\ Count(edges, OwnsEdge(r.client_id, r.matter_id)) >= n
                /\ query = "staff" =>
                     /\ Count(edges, WorksInEdge(r)) >= n
                     /\ Count(edges, AssignedToEdge(r)) >= n

\* the entities a row references, in the order the loop body visits them, each with
\* the display name the row gives it (a family matter takes its name from the lookup)
Ref(id, name, named) == [id |-> id, name |-> name, named |-> named]

MatterRefs(l) == [k \in 1..Len(l) |-> Ref("matter_" \o l[k], "", FALSE)]

RowRefs(q, r) ==
    CASE q = "family" ->
           <<Ref("client_" \o r.client1_id, r.client1_name, TRUE),
             Ref("client_" \o r.client2_id, r.client2_name, TRUE)>>
           \o MatterRefs(r.client1_matters) \o MatterRefs(r.client2_matters)
      [] q = "vendor" ->
           <<Ref("vendor_" \o r.vendor_id, r.vendor_name, TRUE),
             Ref("matter_" \o r.matter_id, Truncate(r.matter_desc, 30), TRUE),
             Ref("client_" \o r.client_id, r.client_name, TRUE)>>
      [] q = "staff" ->
           <<Ref("staff_" \o r.staff_id, r.staff_name, TRUE),
             Ref("dept_" \o r.dept_id, r.dept_name, TRUE),
             Ref("matter_" \o r.matter_id, Truncate(r.matter_desc, 25), TRUE)>>

RECURSIVE AllRefs(_, _)
AllRefs(q, rs) == IF rs = <<>> THEN <<>> ELSE RowRefs(q, Head(rs)) \o AllRefs(q, Tail(rs))

\* every referenced entity has exactly one node, named as by its first reference
OneNodeFromFirstRow ==
    pc \in {"loop", "returned"} =>
        LET refs == AllRefs(query, rows)
        IN  \A k \in 1..Len(refs) :
              LET first == CHOOSE j \in 1..k :
                              /\ refs[j].id = refs[k].id
                              /\ \A i \in 1..(j - 1) : refs[i].id # refs[k].id
                  at == { i \in 1..Len(nodes) : nodes[i].id = refs[k].id }
              IN  /\ Cardinality(at) = 1
                  /\ refs[first].named => \A i \in at : nodes[i].name = refs[first].name

\* processing a row or returning leaves every node already in the list as it is
EmittedNodesKept ==
    pc = "loop" =>
        /\ Len(nodes') >= Len(nodes)
        /\ \A k \in 1..Len(nodes) : nodes'[k] = nodes[k]

\* C6: when several rows reference the same entity id exactly one node is emitted for
\* it, with the attributes of the first row (in input order) that referenced it, and
\* processing a later row leaves every already emitted node unchanged.
C6_FirstRowWins == []OneNodeFromFirstRow /\ [][EmittedNodesKept]_vars

\* a family payload in which the first row's client1 comes back as the second row's
\* client2 under another name, and its node kept the first name
C6_Witness ==
    /\ pc = "returned"
    /\ query = "family"
    /\ Len(rows) = 2
    /\ rows[1].client1_id = rows[2].client2_id
    /\ rows[1].client1_name # rows[2].client2_name
    /\ nodes[1].id = "client_" \o rows[1].client1_id
    /\ nodes[1].name = rows[1].client1_name

\* the node id prefix of the entity a lookup enriches
LookupPrefix(fn) ==
    CASE fn = "_get_client_metrics" -> "client_"
      [] fn = "_get_matter_data" -> "matter_"
      [] fn = "_get_vendor_metrics" -> "vendor_"
      [] fn = "_get_staff_metrics" -> "staff_"

\* the ids marked seen of the entity types whose nodes are enriched by a lookup
EnrichedSeen ==
    CASE query = "family" -> Cardinality(seen_clients) + Cardinality(seen_matters)
      [] query = "vendor" -> Cardinality(seen_vendors)
      [] query = "staff" -> Cardinality(seen_staff)
      [] OTHER -> 0

EnrichedNodes ==
    { k \in 1..Len(nodes) :
        \/ query = "family"
        \/ query = "vendor" /\ nodes[k].type = "vendor"
        \/ query = "staff" /\ nodes[k].type = "staff" }

\* C7: during one invocation the auxiliary lookup is executed at most once per entity
\* id and never for an id already marked seen; the number of lookups equals the number
\* of distinct ids of the enriched types, however many rows repeat them, and every
\* enriched node of a row sequence processed without exception has exactly one lookup.
C7_OneLookupPerNewId ==
    /\ \A i, j \in 1..Len(lookups) :
         (lookups[i].fn = lookups[j].fn /\ lookups[i].id = lookups[j].id) => i = j
    /\ Len(lookups) = EnrichedSeen
    /\ pc \in {"loop", "returned"} =>
         /\ Cardinality(EnrichedNodes) = Len(lookups)
         /\ \A k \in 1..Len(lookups) :
              LookupPrefix(lookups[k].fn) \o lookups[k].id \in NodeIds(nodes)

\* a staff payload built from two rows of the same staff member: one lookup
C7_Witness ==
    /\ pc = "returned"
    /\ query = "staff"
    /\ Len(rows) = 2
    /\ rows[1].staff_id = rows[2].staff_id
    /\ Len(lookups) = 1

\* C8: a failed auxiliary lookup yields an empty mapping instead of aborting the
\* aggregation: the query goes on to return a payload and the node of the affected id
\* carries the defaults (0 for the numeric metrics, placeholder name and status for a
\* matter).
C8_FailedLookupDefaults ==
    \A k \in 1..Len(lookups) :
        lookups[k].df.error =>
            /\ pc # "raised"
            /\ \E i \in 1..Len(nodes) :
                 /\ nodes[i].id = LookupPrefix(lookups[k].fn) \o lookups[k].id
                 /\ lookups[k].fn = "_get_client_metrics" =>
                       nodes[i].value = 0 /\ nodes[i].matter_count = 0
                 /\ lookups[k].fn = "_get_matter_data" =>
                       /\ nodes[i].value = 0
                       /\ nodes[i].name = "Matter " \o lookups[k].id
                       /\ nodes[i].status = "Active"
                 /\ lookups[k].fn = "_get_vendor_metrics" =>
                       nodes[i].total_revenue = 0 /\ nodes[i].matter_count = 0
                 /\ lookups[k].fn = "_get_staff_metrics" => nodes[i].workload = 0

\* C9: given an empty row sequence each of the three queries returns, without a
\* division by zero, no nodes, no edges and stats whose counts are all zero.
C9_EmptyInputEmptyPayload ==
    rows = <<>> =>
        /\ pc # "raised"
        /\ pc = "returned" =>
             /\ result.elements = <<>>
             /\ result.stats.nodeCount = 0
             /\ result.stats.edgeCount = 0
             /\ query = "family" => result.stats.clusterCount = 0
             /\ query = "vendor" => result.stats.vendorCount = 0
             /\ query = "staff" =>
                  /\ result.stats.staffCount = 0
                  /\ result.stats.avgWorkload = Ratio(0, 1)

\* the staff query returned on an exhausted cursor that yielded no row
C9_Witness ==
    /\ pc = "returned"
    /\ query = "staff"
    /\ rows = <<>>
    /\ result.returned

\* C10: two runs of a query given the same row sequence and the same lookup answers
\* return identical payloads, nodes and edges in the same order.
C10_SameInputSamePayload ==
    ( /\ pc = "returned"
      /\ prev.pc = "returned"
      /\ prev.query = query
      /\ prev.rows = rows
      /\ prev.lookups = lookups ) => result = prev.result

\* the staff query ran twice on the same non-empty row sequence with the same answers
C10_Witness ==
    /\ pc = "returned"
    /\ prev.pc = "returned"
    /\ query = "staff"
    /\ prev.query = query
    /\ Len(rows) >= 1
    /\ prev.rows = rows
    /\ prev.lookups = lookups
    /\ Len(result.elements) >= 4

\* the loop body of query q on record r when no point query fails
Body(q, L, r) ==
    CASE q = "family" -> FamilyBody(L, r, NoFailure)
      [] q = "vendor" -> VendorBody(L, r, NoFailure)
      [] q = "staff" -> StaffBody(L, r, NoFailure)

\* the collections an invocation ends with when it starts from L and processes rs
RECURSIVE Aggregate(_, _, _)
Aggregate(q, L, rs) ==
    IF rs = <<>> THEN L ELSE Aggregate(q, Body(q, L, Head(rs)), Tail(rs))

\* empty lists, empty sets, empty workload map
EmptyCollections ==
    [nodes |-> <<>>, edges |-> <<>>,
     seen_clients |-> {}, seen_matters |-> {},
     seen_vendors |-> {}, seen_staff |-> {},
     seen_departments |-> {}, staff_workloads |-> <<>>,
     trace |-> <<>>, lookups |-> <<>>, raised |-> FALSE]

\* the payload the return statement of the running query builds
PayloadNow ==
    CASE query = "family" -> FamilyPayload
      [] query = "vendor" -> VendorPayload
      [] query = "staff" -> StaffPayload

\* the node ids the rows rs of query q reference
RefIds(q, rs) == { AllRefs(q, rs)[k].id : k \in 1..Len(AllRefs(q, rs)) }

\* C11: node list, edge list and seen-id sets are created anew in every invocation:
\* whatever invocations the service object ran before, an invocation starts with empty
\* collections, its collections and its payload are those obtained from the current
\* rows and lookup answers alone, and every id the current rows reference is emitted
\* as a node again although an earlier invocation had seen it.
C11_FreshCollectionsPerInvocation ==
    /\ (pc = "loop" /\ rows = <<>>) => Locals = EmptyCollections
    /\ pc \in {"loop", "returned"} => Locals = Aggregate(query, EmptyCollections, rows)
    /\ pc = "returned" =>
         /\ result = PayloadNow
         /\ prev.pc # "idle" =>
              \A id \in RefIds(query, rows) \cap RefIds(prev.query, prev.rows) :
                  id \in NodeIds(PayloadNodes(result))

\* the family query returned twice and the second invocation emitted nodes for a
\* client and a matter that the first invocation had already seen
C11_Witness ==
    /\ pc = "returned"
    /\ query = "family"
    /\ prev.pc = "returned"
    /\ Len(prev.rows) = 1
    /\ Len(rows) = 1
    /\ rows[1].client1_id = prev.rows[1].client1_id
    /\ prev.rows[1].client1_matters # <<>>
    /\ rows[1].client2_matters # <<>>
    /\ "client_" \o rows[1].client1_id \in NodeIds(PayloadNodes(result))
    /\ "matter_1" \in NodeIds(PayloadNodes(result))

\* C12: in every network payload stats.nodeCount is the number of node elements and
\* stats.edgeCount the number of edge elements, so that their sum is the length of
\* elements; in the family payload clusterCount is the number of distinct client ids
\* seen divided by two, rounded down.
C12_StatsCountElements ==
    result.returned =>
        /\ result.stats.nodeCount = Len(PayloadNodes(result))
        /\ result.stats.edgeCount = Len(PayloadEdges(result))
        /\ result.stats.nodeCount + result.stats.edgeCount = Len(result.elements)
        /\ query = "family" =>
             /\ result.stats.clusterCount = Cardinality(seen_clients) \div 2
             /\ result.stats.clusterCount =
                  Cardinality({ k \in 1..Len(PayloadNodes(result)) :
                                  PayloadNodes(result)[k].type = "client" }) \div 2

\* a family payload of two clients, one cluster, and their two matters
C12_Witness ==
    /\ pc = "returned"
    /\ query = "family"
    /\ Cardinality(seen_clients) = 2
    /\ result.stats.clusterCount = 1
    /\ result.stats.nodeCount = 4
    /\ result.stats.edgeCount >= 3

\* the ids of the sequence ids in the order of their first appearance
RECURSIVE FirstAppearances(_, _)
FirstAppearances(ids, seen) ==
    IF ids = <<>> THEN <<>>
    ELSE IF Head(ids) \in seen THEN FirstAppearances(Tail(ids), seen)
    ELSE <<Head(ids)>> \o FirstAppearances(Tail(ids), seen \cup {Head(ids)})

IdsOf(s) == [k \in 1..Len(s) |-> s[k].id]

\* C13: rows are processed in input order and within a row the first-declared entity
\* before the second: the node list, and the node elements of the payload, are ordered
\* by the first appearance of each id in the rows, so that in the family query the
\* node of a row's client1 precedes the node of its client2.
C13_NodesInFirstAppearanceOrder ==
    /\ pc \in {"loop", "returned"} =>
         IdsOf(nodes) = FirstAppearances(IdsOf(AllRefs(query, rows)), {})
    /\ pc = "returned" =>
         IdsOf(PayloadNodes(result)) = FirstAppearances(IdsOf(AllRefs(query, rows)), {})

\* a family payload of two rows: the first introduces two clients, the second matters
C13_Witness ==
    /\ pc = "returned"
    /\ query = "family"
    /\ Len(rows) = 2
    /\ rows[1].client1_id # rows[1].client2_id
    /\ rows[1].client1_matters = <<>>
    /\ rows[1].client2_matters = <<>>
    /\ Len(PayloadNodes(result)) = 4
    /\ PayloadNodes(result)[1].id = "client_" \o rows[1].client1_id
    /\ PayloadNodes(result)[2].id = "client_" \o rows[1].client2_id

IsMatterNode(e) == IsNode(e) /\ e.type = "matter"

\* C27: in the family analysis view the 'Connected Matters' KPI, nodeCount minus twice
\* clusterCount, is the number of matter nodes of the family payload, for every row
\* sequence.
C27_ConnectedMattersKpiCountsMatterNodes ==
    (pc = "returned" /\ query = "family") =>
        FamilyAnalysisKpis(result).connected_matters =
            Len(SelectSeq(result.elements, IsMatterNode))

-----------------------------------------------------------------------------
(* Properties of Matter3DAnalyticsService *)

NineKeys ==
    {"departments", "days_in_stage", "total_expenses", "active_tasks",
     "percent_complete", "hover_text", "matter_ids", "client_names",
     "responsible_staff"}

Is3d(c) == c.op = "get_matter_3d_data"

\* the number of matter points of a value of get_matter_3d_data
Points(c) == Len(c.value.departments)

\* C14: for every store outcome (unreachable, query error, zero rows, rows) and every
\* limit >= 0, get_matter_3d_data returns, without raising, a record with exactly the
\* nine keys, all of whose lists have the same length.
C14_NineKeysEqualLengths ==
    Is3d(m3d_last) =>
        /\ ~m3d_last.raised
        /\ DOMAIN m3d_last.value = NineKeys
        /\ \A k \in NineKeys : Len(m3d_last.value[k]) = Points(m3d_last)

\* a call whose query raised returned two mock points after a call that had returned
\* two rows of the store
C14_Witness ==
    /\ Is3d(m3d_last)
    /\ Is3d(m3d_prev)
    /\ m3d_last.outcome = "query_error"
    /\ Points(m3d_last) = 2
    /\ m3d_prev.outcome = "rows"
    /\ m3d_prev.path = "real"
    /\ Points(m3d_prev) = 2

\* C15: every connection opened by get_matter_3d_data, get_department_summary or
\* get_matter_detail is closed when the call returns, also when the query raised.
C15_ConnectionsClosedAtReturn ==
    (m3d_last.op # "none" /\ m3d_last.opened) => m3d_last.closed

\* C16: for each of the three methods the value returned when the store is
\* unreachable equals the value returned, for the same arguments, when the query
\* succeeds with zero rows.
C16_UnreachableEqualsZeroRows ==
    ( /\ m3d_last.op # "none"
      /\ m3d_prev.op = m3d_last.op
      /\ m3d_prev.args = m3d_last.args
      /\ m3d_prev.outcome = "unreachable"
      /\ m3d_last.outcome = "zero_rows" ) => m3d_last.value = m3d_prev.value

\* C17: two calls of the mock matter generator with the same limit and department
\* filter return identical records, whatever other code drew from the generator
\* between them.
C17_MockDataDeterministic ==
    ( /\ Is3d(m3d_last) /\ m3d_last.path = "mock"
      /\ Is3d(m3d_prev) /\ m3d_prev.path = "mock"
      /\ m3d_prev.args = m3d_last.args ) => m3d_last.value = m3d_prev.value

\* the generator made two matters in each of two calls with other draws in between
C17_Witness ==
    /\ Is3d(m3d_last) /\ m3d_last.path = "mock"
    /\ Is3d(m3d_prev) /\ m3d_prev.path = "mock"
    /\ m3d_prev.args = m3d_last.args
    /\ m3d_last.after_draws
    /\ Points(m3d_last) = 2
    /\ m3d_last.value.days_in_stage[1] # m3d_last.value.days_in_stage[2]

\* C18: for every positive limit get_matter_3d_data returns at least one matter point
\* and at most limit points, on the real-data path and on the mock path.
C18_BetweenOneAndLimitPoints ==
    (Is3d(m3d_last) /\ m3d_last.args.limit > 0) =>
        /\ Points(m3d_last) >= 1
        /\ Points(m3d_last) <= m3d_last.args.limit

\* the store had two matching matters and limit 1 returned one of them
C18_Witness ==
    /\ Is3d(m3d_last)
    /\ m3d_last.path = "real"
    /\ m3d_last.args.limit = 1
    /\ ~m3d_last.args.department_filter.given
    /\ Points(m3d_last) = 1
    /\ m3d_last.value.matter_ids = <<"M-1">>
    /\ Is3d(m3d_prev)
    /\ m3d_prev.path = "mock"
    /\ m3d_prev.args.limit = 2
    /\ Points(m3d_prev) = 2

-----------------------------------------------------------------------------
(* Properties of the orchestration shell *)

\* the stored view is the nav item clicked last, one of the eight views, and shown
SelectedViewIsLastClicked ==
    /\ dashboard_tabs = IF last_clicked = "none" THEN "overview" ELSE last_clicked
    /\ dashboard_tabs \in Range(NavItems)
    /\ dashboard_content.panel # "Invalid tab selection"

\* a refresh tick leaves the stored view as it is
TickKeepsView == n_intervals' # n_intervals => dashboard_tabs' = dashboard_tabs

\* C19: after any sequence of nav clicks and refresh ticks the stored selected view is
\* the nav item clicked last ('overview' before any click); a tick never changes it; it
\* is always one of the eight views, so that 'Invalid tab selection' is never shown.
C19_SelectedViewFollowsClicks == []SelectedViewIsLastClicked /\ [][TickKeepsView]_vars

\* two refresh ticks after a click on Matter Timeline, whose layout is shown
C19_Witness ==
    /\ triggered = "interval-component"
    /\ n_intervals = 2
    /\ last_clicked = "matter-timeline"
    /\ dashboard_tabs = "matter-timeline"
    /\ dashboard_content = [panel |-> "layout", view |-> "matter-timeline"]
    /\ sidebar_nav[6].is_active

\* C20: /health answers in every state of the served application, with HTTP status
\* 200 and status 'healthy', also when ClioCore is unavailable or a view failed to
\* load; cliocore_available is the flag set at import.
C20_HealthAlwaysHealthy ==
    /\ app_pc = "serving" => ENABLED HealthCheck
    /\ health # NoResponse =>
         /\ health.code = 200
         /\ health.body.status = "healthy"
         /\ health.body.cliocore_available = CLIOCORE_AVAILABLE

\* /health answered while ClioCore was unavailable and the error panel was shown
C20_Witness ==
    /\ health # NoResponse
    /\ health.code = 200
    /\ ~CLIOCORE_AVAILABLE
    /\ ~health.body.cliocore_available
    /\ dashboard_content.panel = "Error Loading Dashboard"

\* the view the last call of the callback was asked for
RequestedView ==
    IF triggered \in { "nav-" \o NavItems[k] : k \in 1..Len(NavItems) }
    THEN last_clicked
    ELSE dashboard_tabs

\* C21: when building the layout of the selected view raises, the callback returns:
\* the content is the error panel, the stored selected view is the requested view and
\* the sidebar marks exactly the requested view as active.
C21_FailedViewShowsErrorPanel ==
    load_failed =>
        /\ app_pc = "serving"
        /\ dashboard_content = [panel |-> "Error Loading Dashboard"]
        /\ last_clicked # "none" => dashboard_tabs = last_clicked
        /\ dashboard_tabs = RequestedView
        /\ \A k \in 1..Len(NavItems) :
              sidebar_nav[k].is_active = (NavItems[k] = dashboard_tabs)

\* a click on Bottlenecks whose layout raised, the view before being another one
C21_Witness ==
    /\ load_failed
    /\ triggered = "nav-bottlenecks"
    /\ dashboard_tabs = "bottlenecks"
    /\ dashboard_content.panel = "Error Loading Dashboard"
    /\ sidebar_nav[7].is_active
    /\ ~sidebar_nav[1].is_active

-----------------------------------------------------------------------------
(* Properties of the registration script *)

IsPrefix(s, t) == Len(s) <= Len(t) /\ s = SubSeq(t, 1, Len(s))

\* every required service of the manifest resolved
RequiredResolved ==
    /\ reg_resolver # NoResolver
    /\ \A k \in 1..Len(manifest.required_services) :
          reg_resolver[manifest.required_services[k]] = "resolved"

\* no lookup of an optional service raised something else than gaierror
OptionalLookupsReturn ==
    \A k \in 1..Len(manifest.optional_services) :
        reg_resolver[manifest.optional_services[k]] # "raises"

\* run_full_registration went on after step 2
Proceeded == Len(reg_steps) >= 3 \/ reg_pc = "configure_service_discovery"

\* C22: the steps run_full_registration began are at every moment a prefix of
\* prerequisites check, module registration, service-discovery configuration,
\* monitoring setup, integration validation, deployment plan; a registration request
\* reaches the registry only if every required service resolved; optional services
\* that do not resolve only add warnings and the registration step follows; a step
\* after the registration is begun only after the registry answered 201; and True is
\* returned only when all six steps were executed.
C22_StepsInOrderAndGated ==
    /\ IsPrefix(reg_steps, RegistrationSteps)
    /\ (reg_requests > 0 \/ Len(reg_steps) >= 2) => RequiredResolved
    /\ (Len(reg_steps) >= 1 /\ RequiredResolved /\ OptionalLookupsReturn) =>
          /\ reg_warnings =
                Cardinality({ k \in 1..Len(manifest.optional_services) :
                                reg_resolver[manifest.optional_services[k]] = "gaierror" })
          /\ Len(reg_steps) >= 2 \/ reg_pc = "register_module"
    /\ Len(reg_steps) >= 3 => Accepts(reg_response)
    /\ reg_result = "True" => reg_steps = RegistrationSteps /\ reg_pc = "returned"

\* a run that returned True with two required services and an optional service that
\* did not resolve
C22_Witness ==
    /\ reg_result = "True"
    /\ Len(manifest.required_services) = 2
    /\ manifest.optional_services = <<"grafana">>
    /\ reg_resolver["grafana"] = "gaierror"
    /\ reg_warnings = 1
    /\ reg_requests = 1

\* C23: once register_module has run, run_full_registration goes on to the
\* service-discovery step if and only if the registry answered with status 201; after
\* any other status or a connection error it has returned False.
C23_ProceedsIffCreated ==
    reg_response # NoResponseYet =>
        /\ Proceeded <=> Accepts(reg_response)
        /\ ~Accepts(reg_response) => reg_result = "False"

\* C26: whenever run_full_registration has returned False, the registry holds no
\* registration of the module.
C26_FalseLeavesNothingRegistered ==
    reg_result = "False" => ~registry_accepted

-----------------------------------------------------------------------------
(* Properties of the validation script *)

\* C24: the checks run_comprehensive_validation called are at every moment a prefix of
\* the nine checks in their fixed order, and it returns only after all nine were
\* called, whatever errors the earlier ones logged or raised; every raising check adds
\* exactly one error to those the checks logged themselves; the value returned is True
\* exactly when no error was recorded, whatever the number of warnings.
C24_AllChecksRunResultFromErrors ==
    /\ IsPrefix(val_ran, validation_checks)
    /\ errors = val_logged + val_raised
    /\ val_pc = "returned" =>
          /\ val_ran = validation_checks
          /\ val_result = "True" <=> errors = 0
          /\ val_result = "False" <=> errors > 0

\* a run in which checks logged an error and raised, all nine ran and False was returned
C24_Witness ==
    /\ val_pc = "returned"
    /\ Len(val_ran) = 9
    /\ val_raised >= 2
    /\ val_logged >= 1
    /\ warnings >= 1
    /\ val_result = "False"

\* a run with warnings and without errors, which returned True
C24_WitnessWarningsOnly ==
    /\ val_pc = "returned"
    /\ warnings >= 2
    /\ errors = 0
    /\ val_result = "True"
    /\ val_report = "VALIDATION PASSED WITH WARNINGS"

-----------------------------------------------------------------------------
(* Properties of the bottlenecks view and of the lifecycle view *)

\* the position of the stage in the record the matrix was built from
InputIndex(stage) ==
    CHOOSE k \in 1..Len(bottleneck_data.stages) : bottleneck_data.stages[k] = stage

\* the priority the thresholds give
ByThresholds(count, days) ==
    CASE count > 10 /\ days > 120 -> "Critical"
      [] ~(count > 10 /\ days > 120) /\ count > 5 /\ days > 90 -> "High"
      [] ~(count > 10 /\ days > 120) /\ ~(count > 5 /\ days > 90) /\ count > 3 -> "Medium"
      [] OTHER -> "Low"

Rank(priority) ==
    CHOOSE r \in 1..4 : <<"Critical", "High", "Medium", "Low">>[r] = priority

\* C25: the priority matrix built from a record of n stages has exactly one item per
\* stage, with the stage's count and days and the priority the thresholds give
\* (Critical if count > 10 and days > 120; else High if count > 5 and days > 90; else
\* Medium if count > 3; else Low); the items are listed Critical, High, Medium, Low,
\* and items of equal priority keep the order of the input.
C25_PriorityByThresholdsStableOrder ==
    (bn_op # "none" /\ bottleneck_data.stages # <<>>) =>
        LET items == priority_matrix.items
            n == Len(bottleneck_data.stages)
        IN  /\ priority_matrix.panel = "matrix"
            /\ Len(items) = n
            /\ \A k \in 1..n :
                  Cardinality({ i \in 1..Len(items) :
                                  items[i].stage = bottleneck_data.stages[k] }) = 1
            /\ \A i \in 1..Len(items) :
                  LET k == InputIndex(items[i].stage)
                  IN  /\ items[i].count = bottleneck_data.stuck_counts[k]
                      /\ items[i].days = bottleneck_data.avg_stuck_days[k]
                      /\ items[i].priority = ByThresholds(items[i].count, items[i].days)
            /\ \A i, j \in 1..Len(items) :
                  i < j =>
                     \/ Rank(items[i].priority) < Rank(items[j].priority)
                     \/ /\ Rank(items[i].priority) = Rank(items[j].priority)
                        /\ InputIndex(items[i].stage) < InputIndex(items[j].stage)

\* a matrix of two stages of equal priority built from a record in which the first
\* stage misses Critical by its days only
C25_Witness ==
    /\ bn_op = "create_priority_matrix"
    /\ bottleneck_data.stuck_counts = <<11, 6>>
    /\ bottleneck_data.avg_stuck_days = <<120, 91>>
    /\ priority_matrix.items[1].stage = "Investigation"
    /\ priority_matrix.items[1].priority = "High"
    /\ priority_matrix.items[2].priority = "High"

\* C29: on the bottlenecks view the number on the 'Critical Bottlenecks' card is the
\* number of stages the priority matrix of the same view labels Critical.
C29_CriticalCardMatchesMatrix ==
    bn_op = "create_layout" =>
        alert_cards.critical_bottlenecks =
            IF priority_matrix.panel = "matrix"
            THEN Cardinality({ i \in 1..Len(priority_matrix.items) :
                                 priority_matrix.items[i].priority = "Critical" })
            ELSE 0

\* C28: for every record get_stage_data returns, the duration chart of the lifecycle
\* view has one bar per stage: its x labels are the stages of the record and it has as
\* many y values as the record has stages.
C28_OneBarPerStage ==
    (stage_data # NoStageData /\ stage_data.stages # <<>>) =>
        /\ Len(duration_chart.traces) = 1
        /\ duration_chart.traces[1].x = stage_data.stages
        /\ Len(duration_chart.traces[1].y) = Len(stage_data.stages)

-----------------------------------------------------------------------------
(* Properties of the matter timeline *)

\* the rows of the list that belong to the matter, in the order of the list
RowsOf(list, matter_id) ==
    LET Idx == { k \in 1..Len(list) : list[k].matter_id = matter_id }
        Nth(m) == CHOOSE k \in Idx : Cardinality({ i \in Idx : i < k }) = m - 1
    IN  [m \in 1..Cardinality(Idx) |-> list[Nth(m)]]

\* the rows of one matter are a chain over the first n stages
IsStageChain(R) ==
    LET n == Len(R)
    IN  /\ n <= Len(timeline_stages)
        /\ \A k \in 1..n :
              /\ R[k].stage_order = k
              /\ R[k].stage_name = timeline_stages[k]
              /\ R[k].total_stages = n
              /\ R[k].end_date > R[k].start_date
              /\ k < n => /\ R[k + 1].start_date >= R[k].end_date + 1
                          /\ R[k].completion_pct = 100
                          /\ ~R[k].is_current
        /\ R[n].is_current
        /\ Cardinality({ k \in 1..n : R[k].is_current }) = 1

ChainsIn(list) ==
    \A id \in { list[k].matter_id : k \in 1..Len(list) } : IsStageChain(RowsOf(list, id))

\* C30: in the rows generate_timeline_data collects, and in the frame it returns, the
\* rows of each matter follow a prefix of the stage list with stage_order 1..n; every
\* stage ends after it starts; stage k+1 starts at least one day after stage k ends;
\* every stage but the last has completion 100 and is not current; the last stage, and
\* no other, is current.  The stages collected for the matter in progress obey the
\* same order and dates.
C30_StageRowsFormChain ==
    /\ ChainsIn(tl_matters)
    /\ ChainsIn(tl_df)
    /\ tl_pc = "returned" =>
          Cardinality({ tl_df[k].matter_id : k \in 1..Len(tl_df) }) = tl_args.limit
    /\ \A k \in 1..Len(matter_stages) :
          /\ matter_stages[k].stage_order = k
          /\ matter_stages[k].stage_name = timeline_stages[k]
          /\ matter_stages[k].end_date > matter_stages[k].start_date
          /\ matter_stages[k].completion_pct = 100
          /\ ~matter_stages[k].is_current
          /\ k < Len(matter_stages) =>
                matter_stages[k + 1].start_date >= matter_stages[k].end_date + 1

\* a frame of three matters was returned, two of them with different numbers of stages
C30_Witness ==
    /\ tl_pc = "returned"
    /\ tl_args.limit = 3
    /\ Cardinality({ tl_df[k].matter_id : k \in 1..Len(tl_df) }) = 3
    /\ Cardinality({ tl_df[k].total_stages : k \in 1..Len(tl_df) }) >= 2
    /\ \E k \in 1..(Len(tl_df) - 1) :
          /\ tl_df[k].matter_id = tl_df[k + 1].matter_id
          /\ tl_df[k + 1].start_date = tl_df[k].end_date + 1

====
